---------------------------- MODULE Spec2Model ----------------------------
(***************************************************************************)
(* Quantys frontend as a state machine: the root workflow orchestrator     *)
(* (SageInventoryApp) and the HTTP client hook (useApi) of                 *)
(* src/frontend/src/hooks/useApi.js, the toast list and the mounted toasts *)
(* of Toast.jsx, the session dashboard of src/unnamed/part_000 and the     *)
(* error containment wrapper of ErrorBoundary.jsx.  One action per         *)
(* handler; an async handler is split at its await into the synchronous    *)
(* part that issues the request and the continuation that runs when the    *)
(* response arrives.                                                       *)
(*                                                                         *)
(* JavaScript values: an object is a record holding exactly the fields     *)
(* that are present; null and undefined are Null (the empty function), so  *)
(* `o?.f` is "f \in DOMAIN o".                                             *)
(***************************************************************************)
EXTENDS Integers, Sequences, FiniteSets, TLC

VARIABLES
    originalFile,     \* useState(null)   useApi.js:139
    completedFile,    \* useState(null)   useApi.js:140
    uploadStatus,     \* useState('idle') useApi.js:143
    processStatus,    \* useState('idle') useApi.js:144
    uploadResult,     \* useState(null)   useApi.js:147
    processResult,    \* useState(null)   useApi.js:148
    error,            \* useState('')     useApi.js:151
    currentStep,      \* useState(0)      useApi.js:154
    progressDetails,  \* useState('')     useApi.js:155
    toasts,           \* useState([])     Toast.jsx:72
    now,              \* Date.now(), read by addToast
    pending,          \* fetch() calls whose promise has not settled yet
    lastDownload,     \* a.download of the last anchor clicked, "" for none
    lastEvent,        \* the handler branch that made the last step, its input
    steps,            \* number of steps taken so far
    mounted,          \* the Toast components on screen, one per listed toast:
                      \* isVisible (Toast.jsx:5) and the auto-dismiss timer
    closing,          \* setTimeout(onClose, 300) calls that have not run yet
    loading,          \* useApi: useState(false)  useApi.js:6
    apiError,         \* useApi: `error`, useState(null)  useApi.js:7
    apiPending,       \* useApi: calls whose promise has not settled yet
    raised,           \* the error the hook call that exited last rejected
                      \* with, Null when it returned
    sessions,         \* SessionDashboard: useState([])  part_000:10
    selectedSessions, \* SessionDashboard: useState([])  part_000:17
    consoleErrors,    \* number of console.error calls made
    unhandled,        \* number of rejections no handler was attached to
    boundaryState,    \* ErrorBoundary: this.state  ErrorBoundary.jsx:7
    isOpen,           \* SessionManager: useState(false)  SessionManager.jsx:9
    showDashboard,    \* SessionManager: useState(false)  SessionManager.jsx:10
    deleteConfirm     \* SessionManager: useState(null)  SessionManager.jsx:11

workflow == <<originalFile, completedFile, uploadStatus, processStatus,
              uploadResult, processResult, error, currentStep,
              progressDetails>>

\* what the toast layer renders and schedules
toastLayer == <<mounted, closing>>

\* one instance of the HTTP client hook
hook == <<loading, apiError, apiPending, raised>>

\* the session dashboard, the console and the wrapper around the tree
overlay == <<sessions, selectedSessions, consoleErrors, unhandled,
             boundaryState>>

\* what the quick panel holds besides its list and its hook instance
panel == <<isOpen, showDashboard, deleteConfirm>>

vars == <<originalFile, completedFile, uploadStatus, processStatus,
          uploadResult, processResult, error, currentStep, progressDetails,
          toasts, now, pending, lastDownload, lastEvent, steps,
          mounted, closing, loading, apiError, apiPending, raised,
          sessions, selectedSessions, consoleErrors, unhandled,
          boundaryState, isOpen, showDashboard, deleteConfirm>>

---------------------------------------------------------------------------
(* Bounds of the model *)

MaxSteps == 4       \* handler invocations, responses and clock ticks explored
MaxOverlaySteps == 7  \* the same, for the hook and the session dashboard
MaxPanelSteps == 8  \* the same, for the quick panel
Pause == 2000       \* milliseconds the operator lets pass before acting again

---------------------------------------------------------------------------
(* JavaScript values *)

Null == <<>>

Has(o, f) == f \in DOMAIN o

\* o?.f || d  for a string field
StrOr(o, f, d) == IF Has(o, f) /\ o[f] # "" THEN o[f] ELSE d

\* o?.f || d  for a numeric field
NumOr(o, f, d) == IF Has(o, f) /\ o[f] # 0 THEN o[f] ELSE d

\* !o?.f  for a string field
Missing(o, f) == ~(Has(o, f) /\ o[f] # "")

\* o?.f  for an object field (session.stats)
ObjOf(o, f) == IF Has(o, f) THEN o[f] ELSE Null

Last(s) == s[Len(s)]

\* s.includes(t): the text t occurs in the text s
Contains(s, t) ==
    \E i \in 1..(Len(s) - Len(t) + 1) : SubSeq(s, i, i + Len(t) - 1) = t

\* s.toLowerCase(), for the letters of the alphabet
toLowerCase(s) ==
    LET upper == "ABCDEFGHIJKLMNOPQRSTUVWXYZ"
        lower == "abcdefghijklmnopqrstuvwxyz"
        low(c) == IF \E k \in 1..26 : SubSeq(upper, k, k) = c
                  THEN LET k == CHOOSE k \in 1..26 : SubSeq(upper, k, k) = c
                       IN SubSeq(lower, k, k)
                  ELSE c
        L[i \in 0..Len(s)] ==
            IF i = 0 THEN "" ELSE L[i - 1] \o low(SubSeq(s, i, i))
    IN L[Len(s)]

\* What lastEvent records of a step: the handler, whether the step is its
\* synchronous part ("call") or the continuation after its await ("settle"),
\* and the input: the file or session given, the request sent, or the
\* request and its response.
Event(handler, phase, input) ==
    [handler |-> handler, phase |-> phase, input |-> input]

Answer(req, resp) == [request |-> req, response |-> resp]

---------------------------------------------------------------------------
(* Toast.jsx: useToast *)

DefaultDuration == 5000

addToast(list, type, message, t) ==
    Append(list, [id |-> t, type |-> type, message |-> message,
                  duration |-> DefaultDuration])

showSuccess(list, message, t) == addToast(list, "success", message, t)
showError(list, message, t) == addToast(list, "error", message, t)
showInfo(list, message, t) == addToast(list, "info", message, t)

FilterOut(list, id) ==
    LET F[i \in 0..Len(list)] ==
            IF i = 0 THEN <<>>
            ELSE IF list[i].id # id THEN Append(F[i-1], list[i])
            ELSE F[i-1]
    IN F[Len(list)]

\* Remount that starts no timer again
Remount_noTimer(list, t) ==
    [i \in 1..Len(list) |-> [isVisible |-> TRUE, timers |-> {}]]

\* <ToastContainer /> is a component defined inside useToast, so it is a new
\* function at every render of SageInventoryApp: React unmounts the previous
\* container and mounts a new one, and every listed toast starts again,
\* visible, with a new timer of its duration.
Remount(list, t) ==
    [i \in 1..Len(list) |->
        [isVisible |-> TRUE, timers |-> {t + list[i].duration}]]

---------------------------------------------------------------------------
(* The inputs of the model: files the operator can pick, sessions the      *)
(* overlays can hand over, and the ways a fetch() can settle.              *)

SageFile == [name |-> "stock_sage.csv", size |-> 2048]
FilledTemplate == [name |-> "inventaire_complete.xlsx", size |-> 4096]

OriginalFiles == {SageFile}
CompletedFiles == {FilledTemplate}

SessionIds == {"abc123", "def456"}

\* A finished session: the example of the specification (no nb_lots).
\* Timestamps are the instants `new Date(text)` gives, in milliseconds from
\* the instant the page was opened; Day is one calendar day without a
\* change of clock.
Day == 86400000

SessCompleted ==
    [id |-> "def456", status |-> "completed", original_filename |-> "mars.csv",
     created_at |-> 0 - Day,
     stats |-> [nb_articles |-> 5, total_quantity |-> 200,
                total_discrepancy |-> 12, adjusted_items_count |-> 4,
                strategy_used |-> "LIFO"]]
\* A finished session the backend listed without stats and file name, and
\* with its creation time in the field `created`.
SessCompletedBare ==
    [id |-> "abc123", status |-> "completed", created |-> 0 - Day]
\* created seven days before the page was opened, to the millisecond
SessTemplate ==
    [id |-> "def456", status |-> "template_generated",
     original_filename |-> "mars.csv", created_at |-> 0 - 7 * Day,
     stats |-> [nb_articles |-> 5, total_quantity |-> 200, nb_lots |-> 0]]
SessTemplateBare == [id |-> "abc123", status |-> "template_generated"]
SessProcessing ==
    [id |-> "def456", status |-> "processing",
     original_filename |-> "mars.csv",
     stats |-> [nb_articles |-> 5, total_quantity |-> 200, nb_lots |-> 2]]
SessError == [id |-> "abc123", status |-> "error"]
\* a session the backend has created and whose file is still arriving
SessUploading == [id |-> "ghi789", status |-> "uploading"]

Sessions == {SessCompleted, SessCompletedBare, SessTemplate, SessTemplateBare,
             SessProcessing, SessError}

\* A settled fetch(): rejected (no response at all), or fulfilled with a
\* status and a body that response.json() parses ("json") or rejects
\* ("syntaxError").  Parsed bodies are objects with at least one field.
NetworkError == [settled |-> "rejected", message |-> "Failed to fetch"]
BadGateway ==
    [settled |-> "fulfilled", ok |-> FALSE, status |-> 502,
     body |-> [syntaxError |-> "Unexpected token < in JSON at position 0"]]
ServerError ==
    [settled |-> "fulfilled", ok |-> FALSE, status |-> 500,
     body |-> [json |-> [message |-> "Internal Server Error"]]]
Refused(text) ==
    [settled |-> "fulfilled", ok |-> FALSE, status |-> 400,
     body |-> [json |-> [error |-> text]]]
Ok200(data) ==
    [settled |-> "fulfilled", ok |-> TRUE, status |-> 200,
     body |-> [json |-> data]]
\* A download answers with a blob and, possibly, a Content-Disposition header.
OkBlob(disposition) ==
    [settled |-> "fulfilled", ok |-> TRUE, status |-> 200,
     disposition |-> disposition]

UploadBody ==
    [session_id |-> "abc123",
     stats |-> [nb_articles |-> 10, total_quantity |-> 500, nb_lots |-> 3]]
ProcessBody(sid) ==
    [final_url |-> "/api/download/final/" \o sid,
     stats |-> [total_discrepancy |-> 12, adjusted_items |-> 4,
                strategy_used |-> "FIFO"]]

Failures(text) == {NetworkError, BadGateway, ServerError, Refused(text)}

\* What response.headers.get('Content-Disposition') gives: "" stands for
\* the null of an absent header, the test `if (contentDisposition)` taking
\* both the same way.
Dispositions ==
    {"",
     "attachment",
     "attachment; filename=\"fichier_serveur.xlsx\"",
     "attachment; FileName=plain.csv ",
     "attachment; filename*=UTF-8''inventaire%20corrig%C3%A9.csv",
     "attachment; filename*=UTF-8''stock%2.csv",
     "attachment; filename=\"stock.csv\"; filename*=UTF-8''stock%20mars.csv",
     "attachment; filename*=UTF-8''stock%20mars.csv; filename=\"stock.csv\""}

Responses(req) ==
    CASE req.endpoint = "/upload" ->
            {Ok200(UploadBody)} \cup Failures("Format de fichier invalide")
      [] req.endpoint = "/process" ->
            {Ok200(ProcessBody(req.form.session_id))}
                \cup Failures("Template incomplet")
      [] OTHER ->
            {OkBlob(d) : d \in Dispositions}
                \cup Failures("Session introuvable")

---------------------------------------------------------------------------
(* fetch(): the requests in flight *)

\* fetch(`${API_BASE_URL}${endpoint}`, {method, body: form}), awaited by
\* `handler`, whose closure holds uploadResult.session_id as `session_id`.
Request(handler, method, endpoint, form, sid) ==
    [id |-> steps, handler |-> handler, method |-> method,
     endpoint |-> endpoint, form |-> form, session_id |-> sid]

\* The try block of handleUploadFile / handleProcessCompleted reaches its
\* success branch: fetch fulfilled, response.json() parsed, response.ok.
JsonSucceeds(resp) ==
    /\ resp.settled = "fulfilled"
    /\ Has(resp.body, "json")
    /\ resp.ok

\* JsonThrown with `new Error(generic)`: the backend's text is dropped
JsonThrown_dropsBackendText(resp, generic) ==
    IF resp.settled = "rejected" THEN resp.message
    ELSE IF ~Has(resp.body, "json") THEN resp.body.syntaxError
    ELSE generic

\* err.message in their catch block: the rejection of fetch, the SyntaxError
\* of response.json(), or new Error(data.error || generic).
JsonThrown(resp, generic) ==
    IF resp.settled = "rejected" THEN resp.message
    ELSE IF ~Has(resp.body, "json") THEN resp.body.syntaxError
    ELSE StrOr(resp.body.json, "error", generic)

\* The download handlers test response.ok first and read a JSON body only
\* of a refused request.
BlobSucceeds(resp) == resp.settled = "fulfilled" /\ resp.ok

BlobThrown(resp, generic) ==
    IF resp.settled = "rejected" THEN resp.message
    ELSE IF ~Has(resp.body, "json") THEN resp.body.syntaxError
    ELSE StrOr(resp.body.json, "error", generic)

\* the text w stands in s at position p
StartsAt(s, p, w) ==
    p + Len(w) - 1 <= Len(s) /\ SubSeq(s, p, p + Len(w) - 1) = w

\* [^c]+ from position p of s: where the longest run of characters other
\* than c ends, p - 1 when it is empty
RunEnd(s, p, c) ==
    LET stops == {k \in p..Len(s) : SubSeq(s, k, k) = c}
    IN IF stops = {} THEN Len(s)
       ELSE (CHOOSE k \in stops : \A j \in stops : k <= j) - 1

\* s.trim(), for blanks
trim(s) ==
    LET inked == {k \in 1..Len(s) : SubSeq(s, k, k) # " "}
    IN IF inked = {} THEN ""
       ELSE SubSeq(s, CHOOSE k \in inked : \A j \in inked : k <= j,
                   CHOOSE k \in inked : \A j \in inked : k >= j)

\* decodeURIComponent(s) for the escapes of the model's headers: %20 is
\* a blank, %C3%A9 is é, and a % that starts no escape throws URIError,
\* for which the result is [threw |-> TRUE].
decodeURIComponent(s) ==
    LET escape(i) == IF StartsAt(s, i, "%20") THEN <<3, " ">>
                     ELSE IF StartsAt(s, i, "%C3%A9") THEN <<6, "é">>
                     ELSE <<0, "">>
        D[i \in 1..(Len(s) + 1)] ==
            IF i > Len(s) THEN [threw |-> FALSE, text |-> ""]
            ELSE IF SubSeq(s, i, i) # "%"
            THEN LET rest == D[i + 1] IN
                 IF rest.threw THEN rest
                 ELSE [threw |-> FALSE, text |-> SubSeq(s, i, i) \o rest.text]
            ELSE IF escape(i)[1] = 0 THEN [threw |-> TRUE]
            ELSE LET rest == D[i + escape(i)[1]] IN
                 IF rest.threw THEN rest
                 ELSE [threw |-> FALSE, text |-> escape(i)[2] \o rest.text]
    IN D[1]

\* contentDisposition.match(
\*   /filename\*=(?:UTF-8'')?([^;]+)|filename="([^"]+)"|filename=([^;]+)/i):
\* the match at the leftmost position where one of the three alternatives
\* matches, the alternatives tried in this order there; [group, text] of the
\* group that took part, <<>> when there is no match.
filenameMatch(header) ==
    LET lower == toLowerCase(header)
        star(p) ==
            IF ~StartsAt(lower, p, "filename*=") THEN <<>>
            ELSE LET q == p + 10
                     r == IF /\ StartsAt(lower, q, "utf-8''")
                             /\ RunEnd(header, q + 7, ";") >= q + 7
                          THEN q + 7 ELSE q
                     e == RunEnd(header, r, ";")
                 IN IF e >= r THEN <<1, SubSeq(header, r, e)>> ELSE <<>>
        quoted(p) ==
            IF ~StartsAt(lower, p, "filename=\"") THEN <<>>
            ELSE LET q == p + 10
                     e == RunEnd(header, q, "\"")
                 IN IF e >= q /\ e < Len(header)
                    THEN <<2, SubSeq(header, q, e)>> ELSE <<>>
        bare(p) ==
            IF ~StartsAt(lower, p, "filename=") THEN <<>>
            ELSE LET q == p + 9
                     e == RunEnd(header, q, ";")
                 IN IF e >= q THEN <<3, SubSeq(header, q, e)>> ELSE <<>>
        at(p) == IF star(p) # <<>> THEN star(p)
                 ELSE IF quoted(p) # <<>> THEN quoted(p)
                 ELSE bare(p)
        places == {p \in 1..Len(header) : at(p) # <<>>}
    IN IF places = {} THEN <<>>
       ELSE at(CHOOSE p \in places : \A q \in places : p <= q)

\* filenameOf without the decoding of the first group
filenameOf_rawStar(disposition, default) ==
    IF disposition = "" THEN default
    ELSE LET m == filenameMatch(disposition) IN
         IF m = <<>> THEN default
         ELSE IF m[1] = 3 THEN trim(m[2])
         ELSE m[2]

\* The name given to a.download: the default, or what the match on the
\* header gives.
filenameOf(disposition, default) ==
    IF disposition = "" THEN default
    ELSE LET m == filenameMatch(disposition) IN
         IF m = <<>> THEN default
         ELSE IF m[1] = 1
         THEN IF decodeURIComponent(m[2]).threw THEN m[2]
              ELSE decodeURIComponent(m[2]).text
         ELSE IF m[1] = 2 THEN m[2]
         ELSE trim(m[2])

\* What SageInventoryApp renders from: its own state and that of useToast.
Rendered == <<workflow, toasts>>

\* Every step of a handler of SageInventoryApp counts against the bound on
\* the run's length; the hook instance and the state of the overlays belong
\* to other components.  A step that changes the state of SageInventoryApp
\* renders it again, which remounts the toast container.
Advance ==
    /\ steps < MaxSteps
    /\ steps' = steps + 1
    /\ UNCHANGED <<closing, hook, overlay, panel>>

\* the render that follows the step
Render ==
    mounted' = IF Rendered' # Rendered THEN Remount(toasts', now) ELSE mounted

---------------------------------------------------------------------------
(* State after construction *)

Init ==
    /\ originalFile = Null
    /\ completedFile = Null
    /\ uploadStatus = "idle"
    /\ processStatus = "idle"
    /\ uploadResult = Null
    /\ processResult = Null
    /\ error = ""
    /\ currentStep = 0
    /\ progressDetails = ""
    /\ toasts = <<>>
    /\ now = 0
    /\ pending = {}
    /\ lastDownload = ""
    /\ lastEvent = Event("init", "call", Null)
    /\ steps = 0
    /\ mounted = <<>>
    /\ closing = {}
    /\ loading = FALSE
    /\ apiError = Null
    /\ apiPending = {}
    /\ raised = Null
    /\ sessions = <<>>
    /\ selectedSessions = <<>>
    /\ consoleErrors = 0
    /\ unhandled = 0
    /\ boundaryState = [hasError |-> FALSE, error |-> Null, errorInfo |-> Null]
    /\ isOpen = FALSE
    /\ showDashboard = FALSE
    /\ deleteConfirm = ""

---------------------------------------------------------------------------
(* File selection *)

onDropOriginal_body ==
    \E file \in OriginalFiles :
        /\ originalFile' = file
        /\ error' = ""
        /\ lastEvent' = Event("onDropOriginal", "call", file)
        /\ UNCHANGED <<completedFile, uploadStatus, processStatus, uploadResult,
                       processResult, currentStep, progressDetails, toasts,
                       now, pending, lastDownload>>
        /\ Render

onDropOriginal == Advance /\ onDropOriginal_body

\* original-file-input onChange; files[0] is undefined when the picker
\* closes with no file chosen
onChangeOriginal_body ==
    \E file \in OriginalFiles \cup {Null} :
        /\ originalFile' = file
        /\ lastEvent' = Event("onChangeOriginal", "call", file)
        /\ UNCHANGED <<completedFile, uploadStatus, processStatus, uploadResult,
                       processResult, error, currentStep, progressDetails,
                       toasts, now, pending, lastDownload>>
        /\ Render

onChangeOriginal == Advance /\ onChangeOriginal_body

\* cancelOriginal that also gives up the upload in flight
cancelOriginal_abortsUpload ==
    /\ Advance
    /\ originalFile' = Null
    /\ uploadStatus' = "idle"
    /\ lastEvent' = Event("cancelOriginal", "call", Null)
    /\ UNCHANGED <<completedFile, processStatus, uploadResult,
                   processResult, error, currentStep, progressDetails, toasts,
                   now, pending, lastDownload>>
    /\ Render

\* "Annuler" of the Phase-1 card
cancelOriginal_body ==
    /\ originalFile' = Null
    /\ lastEvent' = Event("cancelOriginal", "call", Null)
    /\ UNCHANGED <<completedFile, uploadStatus, processStatus, uploadResult,
                   processResult, error, currentStep, progressDetails, toasts,
                   now, pending, lastDownload>>
    /\ Render

cancelOriginal == Advance /\ cancelOriginal_body

onDropCompleted_body ==
    \E file \in CompletedFiles :
        /\ completedFile' = file
        /\ error' = ""
        /\ lastEvent' = Event("onDropCompleted", "call", file)
        /\ UNCHANGED <<originalFile, uploadStatus, processStatus, uploadResult,
                       processResult, currentStep, progressDetails, toasts,
                       now, pending, lastDownload>>
        /\ Render

onDropCompleted == Advance /\ onDropCompleted_body

\* completed-file-input onChange
onChangeCompleted_body ==
    \E file \in CompletedFiles \cup {Null} :
        /\ completedFile' = file
        /\ lastEvent' = Event("onChangeCompleted", "call", file)
        /\ UNCHANGED <<originalFile, uploadStatus, processStatus, uploadResult,
                       processResult, error, currentStep, progressDetails,
                       toasts, now, pending, lastDownload>>
        /\ Render

onChangeCompleted == Advance /\ onChangeCompleted_body

\* "Annuler" of the Phase-2 card
cancelCompleted_body ==
    /\ completedFile' = Null
    /\ lastEvent' = Event("cancelCompleted", "call", Null)
    /\ UNCHANGED <<originalFile, uploadStatus, processStatus, uploadResult,
                   processResult, error, currentStep, progressDetails, toasts,
                   now, pending, lastDownload>>
    /\ Render

cancelCompleted == Advance /\ cancelCompleted_body

\* the close control of the inline error banner
closeErrorBanner_body ==
    /\ error # ""
    /\ error' = ""
    /\ lastEvent' = Event("closeErrorBanner", "call", Null)
    /\ UNCHANGED <<originalFile, completedFile, uploadStatus, processStatus,
                   uploadResult, processResult, currentStep, progressDetails,
                   toasts, now, pending, lastDownload>>
    /\ Render

closeErrorBanner == Advance /\ closeErrorBanner_body

---------------------------------------------------------------------------
(* Phase 1: handleUploadFile *)

MsgNoOriginalFile == "Veuillez sélectionner un fichier CSV Sage X3"
MsgUploadFailed == "Erreur lors du traitement du fichier"
MsgUploadDone == "Fichier traité avec succès !"

\* handleUploadFile's validation branch also calling setUploadStatus('error')
handleUploadFile_validation_marksError ==
    /\ Advance
    /\ originalFile = Null
    /\ uploadStatus' = "error"
    /\ error' = MsgNoOriginalFile
    /\ toasts' = showError(toasts, MsgNoOriginalFile, now)
    /\ lastEvent' = Event("handleUploadFile", "call", Null)
    /\ UNCHANGED <<originalFile, completedFile, processStatus, uploadResult,
                   processResult, currentStep, progressDetails, now, pending,
                   lastDownload>>
    /\ Render

\* if (!originalFile) { setError; showError; return }
handleUploadFile_validation ==
    /\ Advance
    /\ originalFile = Null
    /\ error' = MsgNoOriginalFile
    /\ toasts' = showError(toasts, MsgNoOriginalFile, now)
    /\ lastEvent' = Event("handleUploadFile", "call", Null)
    /\ UNCHANGED <<originalFile, completedFile, uploadStatus, processStatus,
                   uploadResult, processResult, currentStep, progressDetails,
                   now, pending, lastDownload>>
    /\ Render

\* the part before `await fetch`
handleUploadFile_send_body ==
    /\ originalFile # Null
    /\ uploadStatus' = "uploading"
    /\ currentStep' = 0
    /\ progressDetails' = "Validation du format et traitement des données..."
    /\ error' = ""
    /\ LET req == Request("handleUploadFile", "POST", "/upload",
             [file |-> originalFile], Null)
       IN /\ pending' = pending \cup {req}
          /\ lastEvent' = Event("handleUploadFile", "call", req)
    /\ UNCHANGED <<originalFile, completedFile, processStatus, uploadResult,
                   processResult, toasts, now, lastDownload>>
    /\ Render

handleUploadFile_send == Advance /\ handleUploadFile_send_body

\* handleUploadFile's success branch without setCurrentStep(1)
handleUploadFile_success_staleStep ==
    \E req \in pending : \E resp \in Responses(req) :
        /\ Advance
        /\ req.handler = "handleUploadFile"
        /\ JsonSucceeds(resp)
        /\ uploadStatus' = "success"
        /\ uploadResult' = resp.body.json
        /\ progressDetails' = "Template prêt à être téléchargé"
        /\ toasts' = showSuccess(toasts, MsgUploadDone, now)
        /\ pending' = pending \ {req}
        /\ lastEvent' = Event("handleUploadFile", "settle", Answer(req, resp))
        /\ UNCHANGED <<originalFile, completedFile, processStatus,
                       processResult, error, currentStep, now, lastDownload>>
        /\ Render

\* if (response.ok) { ... }
handleUploadFile_success_body ==
    \E req \in pending : \E resp \in Responses(req) :
        /\ req.handler = "handleUploadFile"
        /\ JsonSucceeds(resp)
        /\ uploadStatus' = "success"
        /\ uploadResult' = resp.body.json
        /\ currentStep' = 1
        /\ progressDetails' = "Template prêt à être téléchargé"
        /\ toasts' = showSuccess(toasts, MsgUploadDone, now)
        /\ pending' = pending \ {req}
        /\ lastEvent' = Event("handleUploadFile", "settle", Answer(req, resp))
        /\ UNCHANGED <<originalFile, completedFile, processStatus,
                       processResult, error, now, lastDownload>>
        /\ Render

handleUploadFile_success == Advance /\ handleUploadFile_success_body

\* catch (err) { ... }
handleUploadFile_catch_body ==
    \E req \in pending : \E resp \in Responses(req) :
        /\ req.handler = "handleUploadFile"
        /\ ~JsonSucceeds(resp)
        /\ uploadStatus' = "error"
        /\ error' = JsonThrown(resp, MsgUploadFailed)
        /\ toasts' = showError(toasts, JsonThrown(resp, MsgUploadFailed), now)
        /\ uploadResult' = Null
        /\ progressDetails' = ""
        /\ pending' = pending \ {req}
        /\ lastEvent' = Event("handleUploadFile", "settle", Answer(req, resp))
        /\ UNCHANGED <<originalFile, completedFile, processStatus,
                       processResult, currentStep, now, lastDownload>>
        /\ Render

handleUploadFile_catch == Advance /\ handleUploadFile_catch_body

---------------------------------------------------------------------------
(* Phase 1: handleDownloadTemplate *)

MsgNoSessionForTemplate == "Aucune session active pour générer le template"
MsgTemplateFailed == "Erreur lors du téléchargement du template"
MsgTemplateDone == "Template téléchargé avec succès !"

handleDownloadTemplate_validation ==
    /\ Advance
    /\ Missing(uploadResult, "session_id")
    /\ error' = MsgNoSessionForTemplate
    /\ toasts' = showError(toasts, MsgNoSessionForTemplate, now)
    /\ lastEvent' = Event("handleDownloadTemplate", "call", Null)
    /\ UNCHANGED <<originalFile, completedFile, uploadStatus, processStatus,
                   uploadResult, processResult, currentStep, progressDetails,
                   now, pending, lastDownload>>
    /\ Render

handleDownloadTemplate_send_body ==
    /\ ~Missing(uploadResult, "session_id")
    /\ LET req == Request("handleDownloadTemplate", "GET",
             "/download/template/" \o uploadResult.session_id,
             Null, uploadResult.session_id)
       IN /\ pending' = pending \cup {req}
          /\ lastEvent' = Event("handleDownloadTemplate", "call", req)
    /\ UNCHANGED <<workflow, toasts, now, lastDownload>>
    /\ Render

handleDownloadTemplate_send == Advance /\ handleDownloadTemplate_send_body

handleDownloadTemplate_success_body ==
    \E req \in pending : \E resp \in Responses(req) :
        /\ req.handler = "handleDownloadTemplate"
        /\ BlobSucceeds(resp)
        /\ lastDownload' =
               filenameOf(resp.disposition,
                          "inventaire_template_" \o req.session_id \o ".xlsx")
        /\ toasts' = showSuccess(toasts, MsgTemplateDone, now)
        /\ pending' = pending \ {req}
        /\ lastEvent' = Event("handleDownloadTemplate", "settle", Answer(req, resp))
        /\ UNCHANGED <<workflow, now>>
        /\ Render

handleDownloadTemplate_success == Advance /\ handleDownloadTemplate_success_body

handleDownloadTemplate_catch_body ==
    \E req \in pending : \E resp \in Responses(req) :
        /\ req.handler = "handleDownloadTemplate"
        /\ ~BlobSucceeds(resp)
        /\ error' = BlobThrown(resp, MsgTemplateFailed)
        /\ toasts' = showError(toasts, BlobThrown(resp, MsgTemplateFailed), now)
        /\ pending' = pending \ {req}
        /\ lastEvent' = Event("handleDownloadTemplate", "settle", Answer(req, resp))
        /\ UNCHANGED <<originalFile, completedFile, uploadStatus, processStatus,
                       uploadResult, processResult, currentStep,
                       progressDetails, now, lastDownload>>
        /\ Render

handleDownloadTemplate_catch == Advance /\ handleDownloadTemplate_catch_body

---------------------------------------------------------------------------
(* Phase 2: handleProcessCompleted *)

MsgNoCompletedFile == "Veuillez sélectionner le fichier Excel complété"
MsgNoUpload == "Veuillez d'abord importer et traiter le fichier original."
MsgProcessFailed == "Erreur lors du calcul des écarts"
MsgProcessDone == "Traitement terminé avec succès !"

\* if (!completedFile) { ... return }
handleProcessCompleted_noFile ==
    /\ Advance
    /\ completedFile = Null
    /\ error' = MsgNoCompletedFile
    /\ toasts' = showError(toasts, MsgNoCompletedFile, now)
    /\ lastEvent' = Event("handleProcessCompleted", "call", Null)
    /\ UNCHANGED <<originalFile, completedFile, uploadStatus, processStatus,
                   uploadResult, processResult, currentStep, progressDetails,
                   now, pending, lastDownload>>
    /\ Render

\* if (!uploadResult?.session_id) { ... return }
handleProcessCompleted_noSession ==
    /\ Advance
    /\ completedFile # Null
    /\ Missing(uploadResult, "session_id")
    /\ error' = MsgNoUpload
    /\ toasts' = showError(toasts, MsgNoUpload, now)
    /\ lastEvent' = Event("handleProcessCompleted", "call", Null)
    /\ UNCHANGED <<originalFile, completedFile, uploadStatus, processStatus,
                   uploadResult, processResult, currentStep, progressDetails,
                   now, pending, lastDownload>>
    /\ Render

\* handleProcessCompleted without its `!uploadResult?.session_id` return
handleProcessCompleted_send_unchecked ==
    /\ Advance
    /\ completedFile # Null
    /\ processStatus' = "processing"
    /\ currentStep' = 3
    /\ progressDetails' = "Calcul des écarts et répartition FIFO en cours..."
    /\ error' = ""
    /\ LET req == Request("handleProcessCompleted", "POST", "/process",
             [file |-> completedFile,
              session_id |-> StrOr(uploadResult, "session_id", "undefined")],
             Null)
       IN /\ pending' = pending \cup {req}
          /\ lastEvent' = Event("handleProcessCompleted", "call", req)
    /\ UNCHANGED <<originalFile, completedFile, uploadStatus, uploadResult,
                   processResult, toasts, now, lastDownload>>
    /\ Render

\* the part before `await fetch`
handleProcessCompleted_send_body ==
    /\ completedFile # Null
    /\ ~Missing(uploadResult, "session_id")
    /\ processStatus' = "processing"
    /\ currentStep' = 3
    /\ progressDetails' = "Calcul des écarts et répartition FIFO en cours..."
    /\ error' = ""
    /\ LET req == Request("handleProcessCompleted", "POST", "/process",
             [file |-> completedFile,
              session_id |-> uploadResult.session_id], Null)
       IN /\ pending' = pending \cup {req}
          /\ lastEvent' = Event("handleProcessCompleted", "call", req)
    /\ UNCHANGED <<originalFile, completedFile, uploadStatus, uploadResult,
                   processResult, toasts, now, lastDownload>>
    /\ Render

handleProcessCompleted_send == Advance /\ handleProcessCompleted_send_body

handleProcessCompleted_success_body ==
    \E req \in pending : \E resp \in Responses(req) :
        /\ req.handler = "handleProcessCompleted"
        /\ JsonSucceeds(resp)
        /\ processStatus' = "success"
        /\ processResult' = resp.body.json
        /\ currentStep' = 4
        /\ progressDetails' = "Fichier final généré et prêt au téléchargement"
        /\ toasts' = showSuccess(toasts, MsgProcessDone, now)
        /\ pending' = pending \ {req}
        /\ lastEvent' = Event("handleProcessCompleted", "settle", Answer(req, resp))
        /\ UNCHANGED <<originalFile, completedFile, uploadStatus, uploadResult,
                       error, now, lastDownload>>
        /\ Render

handleProcessCompleted_success == Advance /\ handleProcessCompleted_success_body

\* handleProcessCompleted's catch block without setProcessResult(null)
handleProcessCompleted_catch_keepsResult ==
    \E req \in pending : \E resp \in Responses(req) :
        /\ Advance
        /\ req.handler = "handleProcessCompleted"
        /\ ~JsonSucceeds(resp)
        /\ processStatus' = "error"
        /\ error' = JsonThrown(resp, MsgProcessFailed)
        /\ toasts' = showError(toasts, JsonThrown(resp, MsgProcessFailed), now)
        /\ progressDetails' = ""
        /\ pending' = pending \ {req}
        /\ lastEvent' =
               Event("handleProcessCompleted", "settle", Answer(req, resp))
        /\ UNCHANGED <<originalFile, completedFile, uploadStatus, uploadResult,
                       processResult, currentStep, now, lastDownload>>
        /\ Render

handleProcessCompleted_catch_body ==
    \E req \in pending : \E resp \in Responses(req) :
        /\ req.handler = "handleProcessCompleted"
        /\ ~JsonSucceeds(resp)
        /\ processStatus' = "error"
        /\ error' = JsonThrown(resp, MsgProcessFailed)
        /\ toasts' = showError(toasts, JsonThrown(resp, MsgProcessFailed), now)
        /\ processResult' = Null
        /\ progressDetails' = ""
        /\ pending' = pending \ {req}
        /\ lastEvent' = Event("handleProcessCompleted", "settle", Answer(req, resp))
        /\ UNCHANGED <<originalFile, completedFile, uploadStatus, uploadResult,
                       currentStep, now, lastDownload>>
        /\ Render

handleProcessCompleted_catch == Advance /\ handleProcessCompleted_catch_body

---------------------------------------------------------------------------
(* Phase 2: handleDownloadFinalFile *)

MsgNoSessionForFinal ==
    "Aucun ID de session disponible pour télécharger le fichier final."
MsgNoFinalUrl == "Le fichier final n'a pas été généré ou son URL est manquante."
MsgFinalFailed == "Erreur lors du téléchargement du fichier final."
MsgFinalDone == "Fichier final téléchargé avec succès !"

\* if (!uploadResult?.session_id) { ... return }
handleDownloadFinalFile_noSession ==
    /\ Advance
    /\ Missing(uploadResult, "session_id")
    /\ error' = MsgNoSessionForFinal
    /\ toasts' = showError(toasts, MsgNoSessionForFinal, now)
    /\ lastEvent' = Event("handleDownloadFinalFile", "call", Null)
    /\ UNCHANGED <<originalFile, completedFile, uploadStatus, processStatus,
                   uploadResult, processResult, currentStep, progressDetails,
                   now, pending, lastDownload>>
    /\ Render

\* if (!processResult?.final_url) { ... return }
handleDownloadFinalFile_noUrl ==
    /\ Advance
    /\ ~Missing(uploadResult, "session_id")
    /\ Missing(processResult, "final_url")
    /\ error' = MsgNoFinalUrl
    /\ toasts' = showError(toasts, MsgNoFinalUrl, now)
    /\ lastEvent' = Event("handleDownloadFinalFile", "call", Null)
    /\ UNCHANGED <<originalFile, completedFile, uploadStatus, processStatus,
                   uploadResult, processResult, currentStep, progressDetails,
                   now, pending, lastDownload>>
    /\ Render

\* handleDownloadFinalFile without its `!processResult?.final_url` return
handleDownloadFinalFile_send_noUrlCheck ==
    /\ Advance
    /\ ~Missing(uploadResult, "session_id")
    /\ LET req == Request("handleDownloadFinalFile", "GET",
             "/download/final/" \o uploadResult.session_id,
             Null, uploadResult.session_id)
       IN /\ pending' = pending \cup {req}
          /\ lastEvent' = Event("handleDownloadFinalFile", "call", req)
    /\ UNCHANGED <<workflow, toasts, now, lastDownload>>
    /\ Render

handleDownloadFinalFile_send_body ==
    /\ ~Missing(uploadResult, "session_id")
    /\ ~Missing(processResult, "final_url")
    /\ LET req == Request("handleDownloadFinalFile", "GET",
             "/download/final/" \o uploadResult.session_id,
             Null, uploadResult.session_id)
       IN /\ pending' = pending \cup {req}
          /\ lastEvent' = Event("handleDownloadFinalFile", "call", req)
    /\ UNCHANGED <<workflow, toasts, now, lastDownload>>
    /\ Render

handleDownloadFinalFile_send == Advance /\ handleDownloadFinalFile_send_body

handleDownloadFinalFile_success_body ==
    \E req \in pending : \E resp \in Responses(req) :
        /\ req.handler = "handleDownloadFinalFile"
        /\ BlobSucceeds(resp)
        /\ lastDownload' =
               filenameOf(resp.disposition,
                          "inventaire_corrige_" \o req.session_id \o ".csv")
        /\ error' = ""
        /\ toasts' = showSuccess(toasts, MsgFinalDone, now)
        /\ pending' = pending \ {req}
        /\ lastEvent' = Event("handleDownloadFinalFile", "settle", Answer(req, resp))
        /\ UNCHANGED <<originalFile, completedFile, uploadStatus, processStatus,
                       uploadResult, processResult, currentStep,
                       progressDetails, now>>
        /\ Render

handleDownloadFinalFile_success == Advance /\ handleDownloadFinalFile_success_body

\* handleDownloadFinalFile's catch block also calling
\* setProcessStatus('error')
handleDownloadFinalFile_catch_marksError ==
    \E req \in pending : \E resp \in Responses(req) :
        /\ Advance
        /\ req.handler = "handleDownloadFinalFile"
        /\ ~BlobSucceeds(resp)
        /\ processStatus' = "error"
        /\ error' = BlobThrown(resp, MsgFinalFailed)
        /\ toasts' = showError(toasts, BlobThrown(resp, MsgFinalFailed), now)
        /\ pending' = pending \ {req}
        /\ lastEvent' = Event("handleDownloadFinalFile", "settle", Answer(req, resp))
        /\ UNCHANGED <<originalFile, completedFile, uploadStatus,
                       uploadResult, processResult, currentStep,
                       progressDetails, now, lastDownload>>
        /\ Render

\* catch (err) { setError; showError; console.error }
handleDownloadFinalFile_catch_body ==
    \E req \in pending : \E resp \in Responses(req) :
        /\ req.handler = "handleDownloadFinalFile"
        /\ ~BlobSucceeds(resp)
        /\ error' = BlobThrown(resp, MsgFinalFailed)
        /\ toasts' = showError(toasts, BlobThrown(resp, MsgFinalFailed), now)
        /\ pending' = pending \ {req}
        /\ lastEvent' = Event("handleDownloadFinalFile", "settle", Answer(req, resp))
        /\ UNCHANGED <<originalFile, completedFile, uploadStatus, processStatus,
                       uploadResult, processResult, currentStep,
                       progressDetails, now, lastDownload>>
        /\ Render

handleDownloadFinalFile_catch == Advance /\ handleDownloadFinalFile_catch_body

---------------------------------------------------------------------------
(* resetAll *)

\* resetAll without setProcessResult(null)
resetAll_keepsProcessResult ==
    /\ Advance
    /\ originalFile' = Null
    /\ completedFile' = Null
    /\ uploadStatus' = "idle"
    /\ processStatus' = "idle"
    /\ uploadResult' = Null
    /\ error' = ""
    /\ currentStep' = 0
    /\ progressDetails' = ""
    /\ toasts' = showInfo(toasts, "Session réinitialisée", now)
    /\ lastEvent' = Event("resetAll", "call", Null)
    /\ UNCHANGED <<processResult, now, pending, lastDownload>>
    /\ Render

resetAll_body ==
    /\ originalFile' = Null
    /\ completedFile' = Null
    /\ uploadStatus' = "idle"
    /\ processStatus' = "idle"
    /\ uploadResult' = Null
    /\ processResult' = Null
    /\ error' = ""
    /\ currentStep' = 0
    /\ progressDetails' = ""
    /\ toasts' = showInfo(toasts, "Session réinitialisée", now)
    /\ lastEvent' = Event("resetAll", "call", Null)
    /\ UNCHANGED <<now, pending, lastDownload>>
    /\ Render

resetAll == Advance /\ resetAll_body

---------------------------------------------------------------------------
(* handleSessionSelect *)

\* const mockOriginalFile = { name: ..., size: 0 }
mockOriginalFile(session) ==
    [name |-> StrOr(session, "original_filename", "Fichier original"),
     size |-> 0]

\* resumedUploadResult handing on session.stats as it is, without `|| 0`
resumedUploadResult_noDefault(session) ==
    [session_id |-> session.id, stats |-> ObjOf(session, "stats")]

\* the object given to setUploadResult
resumedUploadResult(session) ==
    [session_id |-> session.id,
     stats |-> [nb_articles |-> NumOr(ObjOf(session, "stats"), "nb_articles", 0),
                total_quantity |->
                    NumOr(ObjOf(session, "stats"), "total_quantity", 0),
                nb_lots |-> NumOr(ObjOf(session, "stats"), "nb_lots", 0)]]

\* resumedProcessResult reading stats.adjusted_items, the name the /process
\* response uses, where the session list says adjusted_items_count
resumedProcessResult_wrongField(session) ==
    [final_url |-> "/api/download/final/" \o session.id,
     stats |-> [total_discrepancy |->
                    NumOr(ObjOf(session, "stats"), "total_discrepancy", 0),
                adjusted_items |->
                    NumOr(ObjOf(session, "stats"), "adjusted_items", 0),
                strategy_used |->
                    StrOr(ObjOf(session, "stats"), "strategy_used", "FIFO")]]

\* the object given to setProcessResult
resumedProcessResult(session) ==
    [final_url |-> "/api/download/final/" \o session.id,
     stats |-> [total_discrepancy |->
                    NumOr(ObjOf(session, "stats"), "total_discrepancy", 0),
                adjusted_items |->
                    NumOr(ObjOf(session, "stats"), "adjusted_items_count", 0),
                strategy_used |->
                    StrOr(ObjOf(session, "stats"), "strategy_used", "FIFO")]]

MsgResumedCompleted(session) ==
    "Session " \o session.id \o " reprise - Traitement terminé"
MsgResumedTemplate(session) ==
    "Session " \o session.id \o " reprise - Template disponible"
MsgSelected(session) ==
    "Session " \o session.id \o " sélectionnée (statut: " \o session.status
        \o ")"

\* handleSessionSelect(session): what it sets, by the status of the session
handleSessionSelect(session) ==
    /\ completedFile' = Null
    /\ error' = ""
    /\ IF session.status = "completed"
       THEN /\ originalFile' = mockOriginalFile(session)
            /\ uploadStatus' = "success"
            /\ uploadResult' = resumedUploadResult(session)
            /\ processStatus' = "success"
            /\ currentStep' = 4
            /\ progressDetails' =
                  "Session terminée - Fichier final disponible"
            /\ processResult' = resumedProcessResult(session)
            /\ toasts' = showSuccess(toasts, MsgResumedCompleted(session),
                                     now)
       ELSE IF session.status = "template_generated"
       THEN /\ originalFile' = mockOriginalFile(session)
            /\ uploadStatus' = "success"
            /\ uploadResult' = resumedUploadResult(session)
            /\ processStatus' = "idle"
            /\ processResult' = Null
            /\ currentStep' = 1
            /\ progressDetails' = "Template disponible pour téléchargement"
            /\ toasts' = showSuccess(toasts, MsgResumedTemplate(session),
                                     now)
       ELSE /\ originalFile' = Null
            /\ currentStep' = 0
            /\ progressDetails' = ""
            /\ toasts' = showInfo(toasts, MsgSelected(session), now)
            /\ UNCHANGED <<uploadStatus, processStatus, uploadResult,
                           processResult>>
    /\ lastEvent' = Event("handleSessionSelect", "call", session)

\* session.status === 'completed'
handleSessionSelect_completed ==
    \E session \in Sessions :
        /\ Advance
        /\ session.status = "completed"
        /\ handleSessionSelect(session)
        /\ UNCHANGED <<now, pending, lastDownload>>
        /\ Render

\* session.status === 'template_generated'
handleSessionSelect_template ==
    \E session \in Sessions :
        /\ Advance
        /\ session.status = "template_generated"
        /\ handleSessionSelect(session)
        /\ UNCHANGED <<now, pending, lastDownload>>
        /\ Render

\* any other status
handleSessionSelect_other ==
    \E session \in Sessions :
        /\ Advance
        /\ session.status \notin {"template_generated", "completed"}
        /\ handleSessionSelect(session)
        /\ UNCHANGED <<now, pending, lastDownload>>
        /\ Render

---------------------------------------------------------------------------
(* The toast list and the clock *)

\* removeToast(id), called by a toast 300 ms after it was closed or timed out
removeToast ==
    \E i \in 1..Len(toasts) :
        /\ Advance
        /\ toasts' = FilterOut(toasts, toasts[i].id)
        /\ lastEvent' = Event("removeToast", "call", Null)
        /\ UNCHANGED <<workflow, now, pending, lastDownload>>
        /\ Render

\* a millisecond passes
Tick ==
    /\ Advance
    /\ now' = now + 1
    /\ lastEvent' = Event("Tick", "call", Null)
    /\ UNCHANGED <<workflow, toasts, pending, lastDownload>>
    /\ Render

---------------------------------------------------------------------------
(* What SageInventoryApp renders of the Phase-1 card and of the reset *)

\* the drop zone and the file input: {uploadStatus === 'idle' && (...)}
Phase1Picker == uploadStatus = "idle"

\* "Traiter le fichier": inside the same block, when a file is selected
\* that is not flagged isMock
Phase1Trigger ==
    /\ uploadStatus = "idle"
    /\ originalFile # Null
    /\ ~Has(originalFile, "isMock")

\* "Nouveau": {processStatus === 'success' && processResult && (...)}
ResetOffered == processStatus = "success" /\ processResult # Null

---------------------------------------------------------------------------
(* The orchestrator with every handler callable: the handlers' contract *)

Next ==
    \/ onDropOriginal
    \/ onChangeOriginal
    \/ cancelOriginal
    \/ onDropCompleted
    \/ onChangeCompleted
    \/ cancelCompleted
    \/ closeErrorBanner
    \/ handleUploadFile_validation
    \/ handleUploadFile_send
    \/ handleUploadFile_success
    \/ handleUploadFile_catch
    \/ handleDownloadTemplate_validation
    \/ handleDownloadTemplate_send
    \/ handleDownloadTemplate_success
    \/ handleDownloadTemplate_catch
    \/ handleProcessCompleted_noFile
    \/ handleProcessCompleted_noSession
    \/ handleProcessCompleted_send
    \/ handleProcessCompleted_success
    \/ handleProcessCompleted_catch
    \/ handleDownloadFinalFile_noSession
    \/ handleDownloadFinalFile_noUrl
    \/ handleDownloadFinalFile_send
    \/ handleDownloadFinalFile_success
    \/ handleDownloadFinalFile_catch
    \/ resetAll
    \/ handleSessionSelect_completed
    \/ handleSessionSelect_template
    \/ handleSessionSelect_other
    \/ removeToast
    \/ Tick

Spec == Init /\ [][Next]_vars

---------------------------------------------------------------------------
(* Toast.jsx: the mounted toasts and their timers *)

\* setTimeout(onClose, 300): the exit animation
ExitAnimation == 300

\* when the timers that are set fire
Dues ==
    UNION {mounted[i].timers : i \in 1..Len(mounted)}
        \cup {c.at : c \in closing}

NextDue == CHOOSE d \in Dues : \A e \in Dues : d <= e

\* A step of the toast layer that the operator does not make: it is not
\* counted against the bound on the run's length.
TimerStep ==
    /\ steps' = steps
    /\ UNCHANGED <<workflow, pending, lastDownload, hook, overlay, panel>>

\* The timer of the effect fires: setIsVisible(false), then
\* setTimeout(onClose, 300).  Only the Toast renders again.
Toast_timeout ==
    \E i \in 1..Len(mounted) : \E due \in mounted[i].timers :
        /\ TimerStep
        /\ due <= now
        /\ mounted' = [mounted EXCEPT
                          ![i] = [isVisible |-> FALSE,
                                  timers |-> mounted[i].timers \ {due}]]
        /\ closing' = closing \cup
                         {[id |-> toasts[i].id, at |-> now + ExitAnimation]}
        /\ lastEvent' = Event("Toast", "timeout", toasts[i])
        /\ UNCHANGED <<toasts, now>>

\* The close button of a toast: setIsVisible(false), then
\* setTimeout(onClose, 300); the timer of the effect stays set.
handleClose ==
    \E i \in 1..Len(mounted) :
        /\ steps < MaxSteps
        /\ steps' = steps + 1
        /\ mounted[i].isVisible
        /\ mounted' = [mounted EXCEPT ![i].isVisible = FALSE]
        /\ closing' = closing \cup
                         {[id |-> toasts[i].id, at |-> now + ExitAnimation]}
        /\ lastEvent' = Event("Toast", "handleClose", toasts[i])
        /\ UNCHANGED <<workflow, toasts, now, pending, lastDownload, hook,
                       overlay, panel>>

\* onClose={() => removeToast(toast.id)} runs, also after the Toast that set
\* it was unmounted: setToasts stores a new array, SageInventoryApp renders
\* again and the container is remounted.
onClose ==
    \E c \in closing :
        /\ TimerStep
        /\ c.at <= now
        /\ toasts' = FilterOut(toasts, c.id)
        /\ closing' = closing \ {c}
        /\ mounted' = Remount(toasts', now)
        /\ lastEvent' = Event("Toast", "onClose", c)
        /\ UNCHANGED now

\* The operator lets some time pass; no timer is overslept.
timePasses ==
    /\ steps < MaxSteps
    /\ steps' = steps + 1
    /\ \A d \in Dues : now + Pause <= d
    /\ now' = now + Pause
    /\ lastEvent' = Event("timePasses", "call", Null)
    /\ UNCHANGED <<workflow, toasts, pending, lastDownload, toastLayer,
                   hook, overlay, panel>>

\* Time reaches the next timer that is set.
timeReachesDue ==
    /\ TimerStep
    /\ Dues # {}
    /\ now < NextDue
    /\ now' = NextDue
    /\ lastEvent' = Event("timeReachesDue", "call", Null)
    /\ UNCHANGED <<toasts, toastLayer>>

\* The toasts on screen while the operator uses the orchestrator: a handler
\* that adds an error toast and sets the error text, one that adds an info
\* toast, and one that only changes the orchestrator's state.
NextToasts ==
    \/ handleUploadFile_validation
    \/ resetAll
    \/ closeErrorBanner
    \/ handleClose
    \/ Toast_timeout
    \/ onClose
    \/ timePasses
    \/ timeReachesDue

SpecToasts == Init /\ [][NextToasts]_vars

\* Timers that are due fire and time does not stop: the event loop of the
\* browser runs a timer callback once its delay has elapsed.
FairSpecToasts ==
    /\ SpecToasts
    /\ WF_vars(Toast_timeout)
    /\ WF_vars(onClose)
    /\ WF_vars(timeReachesDue)

---------------------------------------------------------------------------
(* useApi: the HTTP client hook (useApi.js:5-125), one instance            *)

\* The hook's `error` is null or a string: the string s is <<s>> here.
Text(s) == <<s>>

\* What the backend can list: GET /sessions answers { sessions: [...] },
\* possibly without the field.
ListedTwo == <<SessCompletedBare, SessTemplate>>
ListedOne == <<SessCompleted>>
Listings == {[sessions |-> ListedTwo], [sessions |-> ListedOne],
             [count |-> 0]}

\* what the backend lists to the quick panel
ListedMixed == <<SessError, SessProcessing, SessUploading>>
PanelListings == {[sessions |-> ListedTwo], [sessions |-> ListedOne],
                  [sessions |-> ListedMixed]}

\* a gateway that answers with no body at all
GatewayTimeout ==
    [settled |-> "fulfilled", ok |-> FALSE, status |-> 504,
     body |-> [syntaxError |-> "Unexpected end of JSON input"]]

\* The failures of a hook call: also an empty body, and a refusal whose
\* `error` field is the empty string.
HookFailures ==
    {NetworkError, BadGateway, GatewayTimeout, ServerError,
     Refused("Session introuvable"), Refused("")}

\* The failures the dashboard's calls are answered with: its handlers do
\* not look at the error they catch.
OverlayFailures == {NetworkError, Refused("Session introuvable")}

\* The headers the downloads started from a row of a list are answered
\* with.
ListedDispositions ==
    {"", "attachment; filename=\"fichier_serveur.xlsx\""}

HookResponses(req) ==
    LET failures == IF req.caller = "client" THEN HookFailures
                    ELSE OverlayFailures
    IN CASE req.op = "getSessions" ->
                {Ok200(data) :
                    data \in IF req.caller = "SessionManager.loadSessions"
                             THEN PanelListings ELSE Listings}
                    \cup failures
         [] req.op = "downloadFile" ->
                {OkBlob(d) :
                    d \in IF req.caller = "client" THEN Dispositions
                          ELSE ListedDispositions}
                    \cup failures
         [] req.op = "uploadFile" -> {Ok200(UploadBody)} \cup failures
         [] req.op = "processFile" ->
                {Ok200(ProcessBody(req.form.session_id))} \cup failures
         [] OTHER -> {Ok200([message |-> "ok"])} \cup failures

\* The call `op` of the hook awaited by `caller`, whose closure is `closure`.
HookRequest(op, method, endpoint, form, caller, closure) ==
    [id |-> steps, op |-> op, method |-> method, endpoint |-> endpoint,
     form |-> form, caller |-> caller, closure |-> closure]

uploadFile(file, caller) ==
    HookRequest("uploadFile", "POST", "/upload", [file |-> file], caller,
                Null)

\* processFile(file, sessionId) with the default strategy
processFile(file, sessionId, caller) ==
    HookRequest("processFile", "POST", "/process",
                [file |-> file, session_id |-> sessionId,
                 strategy |-> "FIFO"], caller, Null)

getSessions(caller) ==
    HookRequest("getSessions", "GET", "/sessions", Null, caller, Null)

deleteSession(sessionId, caller, closure) ==
    HookRequest("deleteSession", "DELETE", "/sessions/" \o sessionId, Null,
                caller, closure)

getHealth(caller) ==
    HookRequest("getHealth", "GET", "/health", Null, caller, Null)

downloadFile(type, sessionId, caller) ==
    HookRequest("downloadFile", "GET",
                "/download/" \o type \o "/" \o sessionId, Null, caller,
                [type |-> type, sessionId |-> sessionId])

\* the operations that go through makeRequest
ThroughMakeRequest ==
    {"uploadFile", "processFile", "getSessions", "deleteSession",
     "getHealth"}

\* makeRequest returns data: fetch fulfilled, response.json() parsed,
\* response.ok
makeRequestReturns(resp) ==
    /\ resp.settled = "fulfilled"
    /\ Has(resp.body, "json")
    /\ resp.ok

\* makeRequestThrown with `new Error(`Erreur HTTP: ${response.status}`)`:
\* the backend's text is dropped
makeRequestThrown_ignoresErrorField(resp) ==
    IF resp.settled = "rejected" THEN resp.message
    ELSE IF ~Has(resp.body, "json") THEN resp.body.syntaxError
    ELSE "Erreur HTTP: " \o ToString(resp.status)

\* err.message in makeRequest's catch: the rejection of fetch, the
\* SyntaxError of response.json(), which is awaited before response.ok is
\* looked at, or new Error(data.error || `Erreur HTTP: ${response.status}`)
makeRequestThrown(resp) ==
    IF resp.settled = "rejected" THEN resp.message
    ELSE IF ~Has(resp.body, "json") THEN resp.body.syntaxError
    ELSE StrOr(resp.body.json, "error",
               "Erreur HTTP: " \o ToString(resp.status))

\* downloadFile tests response.ok first and reads a JSON body only of a
\* refused request
downloadFileReturns(resp) == resp.settled = "fulfilled" /\ resp.ok

downloadFileThrown(resp) ==
    IF resp.settled = "rejected" THEN resp.message
    ELSE IF ~Has(resp.body, "json") THEN resp.body.syntaxError
    ELSE StrOr(resp.body.json, "error", "Erreur de téléchargement")

\* `${type}_${sessionId}.${type === 'template' ? 'xlsx' : 'csv'}`
defaultFilename(type, sessionId) ==
    type \o "_" \o sessionId \o
        (IF type = "template" THEN ".xlsx" ELSE ".csv")

\* Whether the call returns, and the error it rejects with otherwise.
Returns(req, resp) ==
    IF req.op = "downloadFile" THEN downloadFileReturns(resp)
    ELSE makeRequestReturns(resp)

Thrown(req, resp) ==
    [message |-> IF req.op = "downloadFile" THEN downloadFileThrown(resp)
                 ELSE makeRequestThrown(resp)]

\* setLoading(true); setError(null) of makeRequest; downloadFile sets none
loadingOnEntry(req) ==
    IF req.op \in ThroughMakeRequest THEN TRUE ELSE loading

errorOnEntry(req, was) ==
    IF req.op \in ThroughMakeRequest THEN Null ELSE was

\* setError(err.message) of the catch block and setLoading(false) of the
\* finally block of makeRequest; downloadFile has neither
loadingOnExit(req) ==
    IF req.op \in ThroughMakeRequest THEN FALSE ELSE loading

errorOnExit(req, resp) ==
    IF req.op \in ThroughMakeRequest /\ ~Returns(req, resp)
    THEN Text(Thrown(req, resp).message)
    ELSE apiError

\* Every step of a component that calls the hook directly counts against
\* the bound; the orchestrator's state and the toasts are not its own.
ClientStep ==
    /\ steps < MaxSteps
    /\ steps' = steps + 1
    /\ UNCHANGED <<workflow, toasts, now, pending, toastLayer, panel>>

\* The same for the steps of the dashboard and of the wrapper.
HookStep ==
    /\ steps < MaxOverlaySteps
    /\ steps' = steps + 1
    /\ UNCHANGED <<workflow, toasts, now, pending, toastLayer, panel>>

\* render_ignoresTrip: the children whatever the state
render_ignoresTrip(state) == "children"

\* ErrorBoundary.render: the recovery screen once hasError is set, the
\* wrapped subtree otherwise.
render(state) == IF state.hasError THEN "recovery" ELSE "children"

Shown == render(boundaryState) = "children"

\* the call enters: one request more in flight
Enter(req) ==
    /\ loading' = loadingOnEntry(req)
    /\ apiError' = errorOnEntry(req, apiError)
    /\ apiPending' = apiPending \cup {req}
    /\ raised' = raised

\* the call exits and its caller issues no other
Exit(req, resp) ==
    /\ loading' = loadingOnExit(req)
    /\ apiError' = errorOnExit(req, resp)
    /\ apiPending' = apiPending \ {req}
    /\ raised' = IF Returns(req, resp) THEN Null ELSE Thrown(req, resp)

\* the call returns and its caller goes on with the call `next`
ExitThenEnter(req, next) ==
    /\ loading' = loadingOnEntry(next)
    /\ apiError' = errorOnEntry(next, apiError)
    /\ apiPending' = (apiPending \ {req}) \cup {next}
    /\ raised' = Null

\* A component calls an operation of the hook and awaits it.
hookCall ==
    \E req \in {uploadFile(SageFile, "client"),
                processFile(FilledTemplate, "abc123", "client"),
                downloadFile("template", "abc123", "client"),
                downloadFile("final", "abc123", "client"),
                getSessions("client"),
                deleteSession("abc123", "client", Null),
                getHealth("client")} :
        /\ ClientStep
        /\ Enter(req)
        /\ lastEvent' = Event(req.op, "call", req)
        /\ UNCHANGED <<lastDownload, overlay>>

\* its call returns
hookReturn ==
    \E req \in apiPending : \E resp \in HookResponses(req) :
        /\ ClientStep
        /\ req.caller = "client"
        /\ Returns(req, resp)
        /\ Exit(req, resp)
        /\ lastDownload' =
              IF req.op = "downloadFile"
              THEN filenameOf(resp.disposition,
                              defaultFilename(req.closure.type,
                                              req.closure.sessionId))
              ELSE lastDownload
        /\ lastEvent' = Event(req.op, "settle", Answer(req, resp))
        /\ UNCHANGED overlay

\* its call raises
hookRaise ==
    \E req \in apiPending : \E resp \in HookResponses(req) :
        /\ ClientStep
        /\ req.caller = "client"
        /\ ~Returns(req, resp)
        /\ Exit(req, resp)
        /\ lastEvent' = Event(req.op, "settle", Answer(req, resp))
        /\ UNCHANGED <<lastDownload, overlay>>

\* clearError: () => setError(null)
clearError ==
    /\ ClientStep
    /\ apiError' = Null
    /\ lastEvent' = Event("clearError", "call", Null)
    /\ UNCHANGED <<loading, apiPending, raised, lastDownload, overlay>>

\* The hook with every operation callable: the operations' contract.
NextApi ==
    \/ hookCall
    \/ hookReturn
    \/ hookRaise
    \/ clearError

SpecApi == Init /\ [][NextApi]_vars

\* The three places where a download is named: the two handlers of the
\* orchestrator, on a resumed completed session, and downloadFile of the
\* hook.
NextDownloads ==
    \/ handleSessionSelect_completed
    \/ handleDownloadTemplate_send
    \/ handleDownloadTemplate_success
    \/ handleDownloadTemplate_catch
    \/ handleDownloadFinalFile_send
    \/ handleDownloadFinalFile_success
    \/ handleDownloadFinalFile_catch
    \/ hookCall
    \/ hookReturn
    \/ hookRaise

SpecDownloads == Init /\ [][NextDownloads]_vars

---------------------------------------------------------------------------
(* SageInventoryApp as it is rendered: each handler behind the control that
   calls it, the continuations of the handlers whenever their response
   arrives *)

MaxUISteps == 5

UIStep ==
    /\ steps < MaxUISteps
    /\ steps' = steps + 1
    /\ UNCHANGED <<closing, hook, overlay, panel>>

\* The Phase-2 card takes no pointer event unless Phase 1 has succeeded:
\* ${uploadStatus !== 'success' ? 'opacity-50 pointer-events-none' : ''}
Phase2Card == uploadStatus = "success"

\* {processStatus !== 'success' && (...)}: the drop zone and the file input
Phase2Picker == Phase2Card /\ processStatus # "success"

\* "Annuler" and "Calculer": {completedFile && (...)} inside that block
Phase2Trigger == Phase2Picker /\ completedFile # Null

\* "Télécharger" of the Phase-1 card:
\* {uploadStatus === 'success' && uploadResult && (...)}
TemplateOffered == uploadStatus = "success" /\ uploadResult # Null

\* "Télécharger" and "Nouveau" of the Phase-2 card
FinalOffered == Phase2Card /\ ResetOffered

Phase1_onDrop == UIStep /\ Phase1Picker /\ onDropOriginal_body
Phase1_onChange == UIStep /\ Phase1Picker /\ onChangeOriginal_body
Phase1_Annuler == UIStep /\ Phase1Trigger /\ cancelOriginal_body
Phase1_Traiter == UIStep /\ Phase1Trigger /\ handleUploadFile_send_body
Phase1_success == UIStep /\ handleUploadFile_success_body
Phase1_catch == UIStep /\ handleUploadFile_catch_body
Phase1_Telecharger ==
    UIStep /\ TemplateOffered /\ handleDownloadTemplate_send_body
Template_success == UIStep /\ handleDownloadTemplate_success_body
Template_catch == UIStep /\ handleDownloadTemplate_catch_body
Phase2_onDrop == UIStep /\ Phase2Picker /\ onDropCompleted_body
Phase2_onChange == UIStep /\ Phase2Picker /\ onChangeCompleted_body
Phase2_Annuler == UIStep /\ Phase2Trigger /\ cancelCompleted_body
Phase2_Calculer == UIStep /\ Phase2Trigger /\ handleProcessCompleted_send_body
Phase2_success == UIStep /\ handleProcessCompleted_success_body
Phase2_catch == UIStep /\ handleProcessCompleted_catch_body
Phase2_Telecharger ==
    UIStep /\ FinalOffered /\ handleDownloadFinalFile_send_body
Final_success == UIStep /\ handleDownloadFinalFile_success_body
Final_catch == UIStep /\ handleDownloadFinalFile_catch_body
Phase2_Nouveau == UIStep /\ FinalOffered /\ resetAll_body
Banner_close == UIStep /\ closeErrorBanner_body

\* <SessionManager onSessionSelect={handleSessionSelect} />: the quick
\* panel or the dashboard hands over a session of the list
onSessionSelect ==
    \E session \in Sessions :
        /\ UIStep
        /\ handleSessionSelect(session)
        /\ UNCHANGED <<now, pending, lastDownload>>
        /\ Render

NextUI ==
    \/ Phase1_onDrop
    \/ Phase1_onChange
    \/ Phase1_Annuler
    \/ Phase1_Traiter
    \/ Phase1_success
    \/ Phase1_catch
    \/ Phase1_Telecharger
    \/ Template_success
    \/ Template_catch
    \/ Phase2_onDrop
    \/ Phase2_onChange
    \/ Phase2_Annuler
    \/ Phase2_Calculer
    \/ Phase2_success
    \/ Phase2_catch
    \/ Phase2_Telecharger
    \/ Final_success
    \/ Final_catch
    \/ Phase2_Nouveau
    \/ Banner_close
    \/ onSessionSelect

SpecUI == Init /\ [][NextUI]_vars

---------------------------------------------------------------------------
(* SessionDashboard (src/unnamed/part_000), holding the hook instance      *)

includes(list, x) == \E i \in 1..Len(list) : list[i] = x

\* The rows of the list are rendered unless `loading`; the header, with the
\* refresh control and the bulk actions, always is.
RowsShown == Shown /\ ~loading

\* On mount, and the refresh control, which `loading` disables.
loadSessions_call ==
    /\ HookStep
    /\ Shown
    /\ ~loading
    /\ Enter(getSessions("loadSessions"))
    /\ lastEvent' = Event("loadSessions", "call", getSessions("loadSessions"))
    /\ UNCHANGED <<lastDownload, overlay>>

\* setSessions(data.sessions || [])
loadSessions_return ==
    \E req \in apiPending : \E resp \in HookResponses(req) :
        /\ HookStep
        /\ Shown
        /\ req.caller = "loadSessions"
        /\ Returns(req, resp)
        /\ Exit(req, resp)
        /\ sessions' = IF Has(resp.body.json, "sessions")
                       THEN resp.body.json.sessions ELSE <<>>
        /\ lastEvent' = Event("loadSessions", "settle", Answer(req, resp))
        /\ UNCHANGED <<lastDownload, selectedSessions, consoleErrors,
                       unhandled, boundaryState>>

\* catch: console.error('Erreur chargement sessions:', error)
loadSessions_catch ==
    \E req \in apiPending : \E resp \in HookResponses(req) :
        /\ HookStep
        /\ Shown
        /\ req.caller = "loadSessions"
        /\ ~Returns(req, resp)
        /\ Exit(req, resp)
        /\ consoleErrors' = consoleErrors + 1
        /\ lastEvent' = Event("loadSessions", "settle", Answer(req, resp))
        /\ UNCHANGED <<lastDownload, sessions, selectedSessions, unhandled,
                       boundaryState>>

\* the checkbox of a row
toggleSelected ==
    \E i \in 1..Len(sessions) :
        /\ HookStep
        /\ RowsShown
        /\ selectedSessions' =
              IF includes(selectedSessions, sessions[i].id)
              THEN SelectSeq(selectedSessions,
                             LAMBDA id : id # sessions[i].id)
              ELSE Append(selectedSessions, sessions[i].id)
        /\ lastEvent' = Event("toggleSelected", "call", sessions[i])
        /\ UNCHANGED <<hook, lastDownload, sessions, consoleErrors,
                       unhandled, boundaryState>>

\* "Template" of a template_generated row, "Final" of a completed row:
\* onClick={() => downloadFile(type, session.id)}
\* the download buttons of a row of the dashboard
RowDownloads(session) ==
    IF session.status = "template_generated" THEN {"template"}
    ELSE IF session.status = "completed" THEN {"final"}
    ELSE {}

rowDownload_call ==
    \E i \in 1..Len(sessions) : \E type \in RowDownloads(sessions[i]) :
        /\ HookStep
        /\ RowsShown
        /\ Enter(downloadFile(type, sessions[i].id, "rowDownload"))
        /\ lastEvent' = Event("rowDownload", "call",
                              downloadFile(type, sessions[i].id,
                                           "rowDownload"))
        /\ UNCHANGED <<lastDownload, overlay>>

\* downloadFile: a.download = filename; a.click()
rowDownload_return ==
    \E req \in apiPending : \E resp \in HookResponses(req) :
        /\ HookStep
        /\ Shown
        /\ req.caller = "rowDownload"
        /\ Returns(req, resp)
        /\ Exit(req, resp)
        /\ lastDownload' =
              filenameOf(resp.disposition,
                         defaultFilename(req.closure.type,
                                         req.closure.sessionId))
        /\ lastEvent' = Event("rowDownload", "settle", Answer(req, resp))
        /\ UNCHANGED overlay

\* the promise of downloadFile rejects and nothing was attached to it
rowDownload_raise ==
    \E req \in apiPending : \E resp \in HookResponses(req) :
        /\ HookStep
        /\ Shown
        /\ req.caller = "rowDownload"
        /\ ~Returns(req, resp)
        /\ Exit(req, resp)
        /\ unhandled' = unhandled + 1
        /\ lastEvent' = Event("rowDownload", "settle", Answer(req, resp))
        /\ UNCHANGED <<lastDownload, sessions, selectedSessions,
                       consoleErrors, boundaryState>>

\* "Supprimer" of a row:
\* onClick={() => deleteSession(session.id).then(() => loadSessions())}
rowDelete_call ==
    \E i \in 1..Len(sessions) :
        /\ HookStep
        /\ RowsShown
        /\ Enter(deleteSession(sessions[i].id, "rowDelete", Null))
        /\ lastEvent' = Event("rowDelete", "call",
                              deleteSession(sessions[i].id, "rowDelete",
                                            Null))
        /\ UNCHANGED <<lastDownload, overlay>>

\* rowDelete_then that does not call loadSessions()
rowDelete_then_noReload ==
    \E req \in apiPending : \E resp \in HookResponses(req) :
        /\ HookStep
        /\ Shown
        /\ req.caller = "rowDelete"
        /\ Returns(req, resp)
        /\ Exit(req, resp)
        /\ lastEvent' = Event("rowDelete", "settle", Answer(req, resp))
        /\ UNCHANGED <<lastDownload, overlay>>

\* then(() => loadSessions()): the delete returned, the list is asked for
rowDelete_then ==
    \E req \in apiPending : \E resp \in HookResponses(req) :
        /\ HookStep
        /\ Shown
        /\ req.caller = "rowDelete"
        /\ Returns(req, resp)
        /\ ExitThenEnter(req, getSessions("loadSessions"))
        /\ lastEvent' = Event("rowDelete", "settle", Answer(req, resp))
        /\ UNCHANGED <<lastDownload, overlay>>

\* the promise of deleteSession rejects: then() passes the rejection on and
\* nothing was attached to it
rowDelete_raise ==
    \E req \in apiPending : \E resp \in HookResponses(req) :
        /\ HookStep
        /\ Shown
        /\ req.caller = "rowDelete"
        /\ ~Returns(req, resp)
        /\ Exit(req, resp)
        /\ unhandled' = unhandled + 1
        /\ lastEvent' = Event("rowDelete", "settle", Answer(req, resp))
        /\ UNCHANGED <<lastDownload, sessions, selectedSessions,
                       consoleErrors, boundaryState>>

\* The closure of one run of handleBulkAction: the `sessions` and
\* `selectedSessions` of the render it was started from, and the position
\* of the for loop.
bulkRun(i) ==
    [sessions |-> sessions, selectedSessions |-> selectedSessions, i |-> i]

\* handleBulkAction('delete') up to its first await; the bulk actions are
\* rendered when something is selected
handleBulkAction_delete ==
    /\ HookStep
    /\ Shown
    /\ Len(selectedSessions) > 0
    /\ Enter(deleteSession(selectedSessions[1], "handleBulkAction",
                           bulkRun(1)))
    /\ lastEvent' = Event("handleBulkAction", "call",
                          deleteSession(selectedSessions[1],
                                        "handleBulkAction", bulkRun(1)))
    /\ UNCHANGED <<lastDownload, overlay>>

\* a delete of the loop returned: the next one is issued, or, after the
\* last, setSessions(sessions.filter(...)) and setSelectedSessions([])
handleBulkAction_next ==
    \E req \in apiPending : \E resp \in HookResponses(req) :
        LET run == req.closure IN
        /\ HookStep
        /\ Shown
        /\ req.caller = "handleBulkAction"
        /\ Returns(req, resp)
        /\ IF run.i < Len(run.selectedSessions)
           THEN /\ ExitThenEnter(req,
                      deleteSession(run.selectedSessions[run.i + 1],
                                    "handleBulkAction",
                                    [run EXCEPT !.i = run.i + 1]))
                /\ UNCHANGED <<sessions, selectedSessions>>
           ELSE /\ Exit(req, resp)
                /\ sessions' =
                      SelectSeq(run.sessions,
                                LAMBDA s0 :
                                    ~includes(run.selectedSessions, s0.id))
                /\ selectedSessions' = <<>>
        /\ lastEvent' = Event("handleBulkAction", "settle",
                              Answer(req, resp))
        /\ UNCHANGED <<lastDownload, consoleErrors, unhandled,
                       boundaryState>>

\* catch: console.error('Erreur action groupée:', error)
handleBulkAction_catch ==
    \E req \in apiPending : \E resp \in HookResponses(req) :
        /\ HookStep
        /\ Shown
        /\ req.caller = "handleBulkAction"
        /\ ~Returns(req, resp)
        /\ Exit(req, resp)
        /\ consoleErrors' = consoleErrors + 1
        /\ lastEvent' = Event("handleBulkAction", "settle",
                              Answer(req, resp))
        /\ UNCHANGED <<lastDownload, sessions, selectedSessions, unhandled,
                       boundaryState>>

\* handleBulkAction('archive'): console.log, then setSelectedSessions([])
handleBulkAction_archive ==
    /\ HookStep
    /\ Shown
    /\ Len(selectedSessions) > 0
    /\ selectedSessions' = <<>>
    /\ lastEvent' = Event("handleBulkAction", "call", "archive")
    /\ UNCHANGED <<hook, lastDownload, sessions, consoleErrors, unhandled,
                   boundaryState>>

---------------------------------------------------------------------------
(* ErrorBoundary (ErrorBoundary.jsx), around the whole tree                *)

\* what a component of the subtree can throw while rendering
RenderFailures ==
    {[message |-> "Cannot read properties of undefined"]}

\* What the screen offers the operator: the reload button alone on the
\* recovery screen (ErrorBoundary.jsx:55-61).
Offered ==
    IF render(boundaryState) = "recovery" THEN {"handleReload"}
    ELSE {"children"}

\* getDerivedStateFromError, then componentDidCatch of the same commit.
\* The subtree is unmounted: what its components held is kept as it was,
\* and no response that arrives later changes it.
componentDidCatch ==
    \E err \in RenderFailures :
        /\ HookStep
        /\ Shown
        /\ boundaryState' =
              [hasError |-> TRUE, error |-> err,
               errorInfo |-> [componentStack |-> "at SessionDashboard"]]
        /\ consoleErrors' = consoleErrors + 1
        /\ lastEvent' = Event("componentDidCatch", "call", err)
        /\ UNCHANGED <<hook, lastDownload, sessions, selectedSessions,
                       unhandled>>

\* The wrapper renders again while tripped: SageInventoryApp, its parent and
\* still mounted, set its state (a timer of a toast, a response that arrives
\* late) and React calls render() with the state the wrapper has.
ErrorBoundary_render ==
    /\ HookStep
    /\ boundaryState.hasError
    /\ lastEvent' = Event("ErrorBoundary", "render", render(boundaryState))
    /\ UNCHANGED <<hook, lastDownload, overlay>>

\* window.location.reload(): the page starts again
handleReload ==
    /\ steps < MaxOverlaySteps
    /\ steps' = steps + 1
    /\ "handleReload" \in Offered
    /\ originalFile' = Null
    /\ completedFile' = Null
    /\ uploadStatus' = "idle"
    /\ processStatus' = "idle"
    /\ uploadResult' = Null
    /\ processResult' = Null
    /\ error' = ""
    /\ currentStep' = 0
    /\ progressDetails' = ""
    /\ toasts' = <<>>
    /\ pending' = {}
    /\ lastDownload' = ""
    /\ mounted' = <<>>
    /\ closing' = {}
    /\ loading' = FALSE
    /\ apiError' = Null
    /\ apiPending' = {}
    /\ raised' = Null
    /\ sessions' = <<>>
    /\ selectedSessions' = <<>>
    /\ consoleErrors' = 0
    /\ unhandled' = 0
    /\ boundaryState' = [hasError |-> FALSE, error |-> Null,
                         errorInfo |-> Null]
    /\ isOpen' = FALSE
    /\ showDashboard' = FALSE
    /\ deleteConfirm' = ""
    /\ lastEvent' = Event("handleReload", "call", Null)
    /\ UNCHANGED now

---------------------------------------------------------------------------
(* The session dashboard with its hook instance under the wrapper *)

NextSessions ==
    \/ loadSessions_call
    \/ loadSessions_return
    \/ loadSessions_catch
    \/ toggleSelected
    \/ rowDownload_call
    \/ rowDownload_return
    \/ rowDownload_raise
    \/ rowDelete_call
    \/ rowDelete_then
    \/ rowDelete_raise
    \/ handleBulkAction_delete
    \/ handleBulkAction_next
    \/ handleBulkAction_catch
    \/ handleBulkAction_archive
    \/ componentDidCatch
    \/ ErrorBoundary_render
    \/ handleReload

SpecSessions == Init /\ [][NextSessions]_vars

---------------------------------------------------------------------------
(* SessionManager (SessionManager.jsx): the quick panel, with its own list *)
(* of sessions and its own hook instance                                   *)

\* A step of the quick panel that leaves SageInventoryApp alone.
PanelStep ==
    /\ steps < MaxPanelSteps
    /\ steps' = steps + 1
    /\ UNCHANGED <<workflow, toasts, now, pending, toastLayer,
                   selectedSessions, unhandled, boundaryState>>

\* The modal is rendered when isOpen; the confirmation dialog lies over it
\* (fixed inset-0, z-60) while deleteConfirm is set.
PanelControls == Shown /\ isOpen /\ deleteConfirm = ""

\* the list is rendered unless `loading`
PanelRows == PanelControls /\ ~loading

\* The clock button: setIsOpen(true), setShowDashboard(false); the effect
\* on [isOpen] then calls loadSessions().
SessionManager_open ==
    /\ PanelStep
    /\ Shown
    /\ ~isOpen
    /\ isOpen' = TRUE
    /\ showDashboard' = FALSE
    /\ Enter(getSessions("SessionManager.loadSessions"))
    /\ lastEvent' = Event("SessionManager", "open",
                          getSessions("SessionManager.loadSessions"))
    /\ UNCHANGED <<lastDownload, sessions, consoleErrors, deleteConfirm>>

\* The close button and the backdrop: setIsOpen(false)
SessionManager_close ==
    /\ PanelStep
    /\ PanelControls
    /\ isOpen' = FALSE
    /\ lastEvent' = Event("SessionManager", "close", Null)
    /\ UNCHANGED <<hook, lastDownload, sessions, consoleErrors,
                   showDashboard, deleteConfirm>>

\* the refresh control, which `loading` disables
SessionManager_loadSessions_call ==
    /\ PanelStep
    /\ PanelControls
    /\ ~loading
    /\ Enter(getSessions("SessionManager.loadSessions"))
    /\ lastEvent' = Event("SessionManager.loadSessions", "call",
                          getSessions("SessionManager.loadSessions"))
    /\ UNCHANGED <<lastDownload, sessions, consoleErrors, panel>>

\* setSessions(data.sessions || []), or the catch: console.error
SessionManager_loadSessions_settle ==
    \E req \in apiPending : \E resp \in HookResponses(req) :
        /\ PanelStep
        /\ req.caller = "SessionManager.loadSessions"
        /\ Exit(req, resp)
        /\ IF Returns(req, resp)
           THEN /\ sessions' = IF Has(resp.body.json, "sessions")
                               THEN resp.body.json.sessions ELSE <<>>
                /\ UNCHANGED consoleErrors
           ELSE /\ consoleErrors' = consoleErrors + 1
                /\ UNCHANGED sessions
        /\ lastEvent' = Event("SessionManager.loadSessions", "settle",
                              Answer(req, resp))
        /\ UNCHANGED <<lastDownload, panel>>

\* The download buttons a row of the quick panel carries, by status.
PanelDownloads(session) ==
    IF session.status = "template_generated" THEN {"template"}
    ELSE IF session.status = "completed" THEN {"template", "final"}
    ELSE {}

\* handleDownload(session.id, type) up to its await
SessionManager_handleDownload_call ==
    \E i \in 1..Len(sessions) : \E type \in PanelDownloads(sessions[i]) :
        /\ PanelStep
        /\ PanelRows
        /\ Enter(downloadFile(type, sessions[i].id,
                              "SessionManager.handleDownload"))
        /\ lastEvent' = Event("SessionManager.handleDownload", "call",
                              downloadFile(type, sessions[i].id,
                                           "SessionManager.handleDownload"))
        /\ UNCHANGED <<lastDownload, sessions, consoleErrors, panel>>

\* the file is saved, or the catch: console.error
SessionManager_handleDownload_settle ==
    \E req \in apiPending : \E resp \in HookResponses(req) :
        /\ PanelStep
        /\ req.caller = "SessionManager.handleDownload"
        /\ Exit(req, resp)
        /\ IF Returns(req, resp)
           THEN /\ lastDownload' =
                      filenameOf(resp.disposition,
                                 defaultFilename(req.closure.type,
                                                 req.closure.sessionId))
                /\ UNCHANGED consoleErrors
           ELSE /\ consoleErrors' = consoleErrors + 1
                /\ UNCHANGED lastDownload
        /\ lastEvent' = Event("SessionManager.handleDownload", "settle",
                              Answer(req, resp))
        /\ UNCHANGED <<sessions, panel>>

\* The resume button of a row: rendered for every status, disabled for
\* `error` and `processing`.
ResumeEnabled(session) == session.status \notin {"error", "processing"}

\* handleSessionSelect of the panel: onSessionSelect(session), which is
\* handleSessionSelect of SageInventoryApp, then setIsOpen(false) and
\* setShowDashboard(false)
SessionManager_handleSessionSelect ==
    \E i \in 1..Len(sessions) :
        /\ steps < MaxPanelSteps
        /\ steps' = steps + 1
        /\ PanelRows
        /\ ResumeEnabled(sessions[i])
        /\ handleSessionSelect(sessions[i])
        /\ isOpen' = FALSE
        /\ showDashboard' = FALSE
        /\ UNCHANGED <<now, pending, lastDownload, closing, hook, overlay,
                       deleteConfirm>>
        /\ Render

\* "Supprimer" of a row: setDeleteConfirm(session.id)
SessionManager_askDelete ==
    \E i \in 1..Len(sessions) :
        /\ PanelStep
        /\ PanelRows
        /\ deleteConfirm' = sessions[i].id
        /\ lastEvent' = Event("SessionManager", "setDeleteConfirm",
                              sessions[i].id)
        /\ UNCHANGED <<hook, lastDownload, sessions, consoleErrors, isOpen,
                       showDashboard>>

\* "Annuler" and the backdrop of the dialog: setDeleteConfirm(null)
SessionManager_cancelDelete ==
    /\ PanelStep
    /\ Shown
    /\ isOpen
    /\ deleteConfirm # ""
    /\ deleteConfirm' = ""
    /\ lastEvent' = Event("SessionManager", "setDeleteConfirm", "")
    /\ UNCHANGED <<hook, lastDownload, sessions, consoleErrors, isOpen,
                   showDashboard>>

\* The closure of one call of handleDelete: its argument and the `sessions`
\* of the render whose dialog was clicked.
deleteRun(sessionId) == [sessionId |-> sessionId, sessions |-> sessions]

\* "Supprimer" of the dialog: handleDelete(deleteConfirm) up to its await
SessionManager_handleDelete_call ==
    /\ PanelStep
    /\ Shown
    /\ isOpen
    /\ deleteConfirm # ""
    /\ Enter(deleteSession(deleteConfirm, "SessionManager.handleDelete",
                           deleteRun(deleteConfirm)))
    /\ lastEvent' = Event("SessionManager.handleDelete", "call",
                          deleteSession(deleteConfirm,
                                        "SessionManager.handleDelete",
                                        deleteRun(deleteConfirm)))
    /\ UNCHANGED <<lastDownload, sessions, consoleErrors, panel>>

\* setSessions(sessions.filter(s => s.id !== sessionId)) and
\* setDeleteConfirm(null), or the catch: console.error
SessionManager_handleDelete_settle ==
    \E req \in apiPending : \E resp \in HookResponses(req) :
        /\ PanelStep
        /\ req.caller = "SessionManager.handleDelete"
        /\ Exit(req, resp)
        /\ IF Returns(req, resp)
           THEN /\ sessions' = FilterOut(req.closure.sessions,
                                         req.closure.sessionId)
                /\ deleteConfirm' = ""
                /\ UNCHANGED consoleErrors
           ELSE /\ consoleErrors' = consoleErrors + 1
                /\ UNCHANGED <<sessions, deleteConfirm>>
        /\ lastEvent' = Event("SessionManager.handleDelete", "settle",
                              Answer(req, resp))
        /\ UNCHANGED <<lastDownload, isOpen, showDashboard>>

NextPanel ==
    \/ SessionManager_open
    \/ SessionManager_close
    \/ SessionManager_loadSessions_call
    \/ SessionManager_loadSessions_settle
    \/ SessionManager_handleDownload_call
    \/ SessionManager_handleDownload_settle
    \/ SessionManager_handleSessionSelect
    \/ SessionManager_askDelete
    \/ SessionManager_cancelDelete
    \/ SessionManager_handleDelete_call
    \/ SessionManager_handleDelete_settle

SpecPanel == Init /\ [][NextPanel]_vars

---------------------------------------------------------------------------
(* SessionManager.jsx: the two floating buttons, the quick panel and the
   dashboard it renders.  The dashboard keeps its own list; what it hands to
   onSessionSelect is a session the backend lists. *)

\* the purple button of the closed rendering
SessionManager_openDashboard ==
    /\ PanelStep
    /\ Shown
    /\ ~isOpen
    /\ showDashboard' = TRUE
    /\ isOpen' = FALSE
    /\ lastEvent' = Event("SessionManager", "openDashboard", Null)
    /\ UNCHANGED <<hook, lastDownload, sessions, consoleErrors,
                   deleteConfirm>>

\* onClose={() => setShowDashboard(false)}
SessionDashboard_onClose ==
    /\ PanelStep
    /\ Shown
    /\ showDashboard
    /\ showDashboard' = FALSE
    /\ lastEvent' = Event("SessionDashboard", "onClose", Null)
    /\ UNCHANGED <<hook, lastDownload, sessions, consoleErrors, isOpen,
                   deleteConfirm>>

\* the dashboard's onSessionSelect without setShowDashboard(false)
SessionDashboard_onSessionSelect_staysOpen ==
    \E session \in Sessions :
        /\ steps < MaxPanelSteps
        /\ steps' = steps + 1
        /\ Shown
        /\ showDashboard
        /\ handleSessionSelect(session)
        /\ isOpen' = FALSE
        /\ UNCHANGED <<now, pending, lastDownload, closing, hook, overlay,
                       deleteConfirm, showDashboard>>
        /\ Render

\* onSessionSelect={(session) => { onSessionSelect(session);
\*     setShowDashboard(false); setIsOpen(false); }}
SessionDashboard_onSessionSelect ==
    \E session \in Sessions :
        /\ steps < MaxPanelSteps
        /\ steps' = steps + 1
        /\ Shown
        /\ showDashboard
        /\ handleSessionSelect(session)
        /\ showDashboard' = FALSE
        /\ isOpen' = FALSE
        /\ UNCHANGED <<now, pending, lastDownload, closing, hook, overlay,
                       deleteConfirm>>
        /\ Render

NextOverlays ==
    \/ SessionManager_open
    \/ SessionManager_close
    \/ SessionManager_loadSessions_settle
    \/ SessionManager_handleSessionSelect
    \/ SessionManager_openDashboard
    \/ SessionDashboard_onClose
    \/ SessionDashboard_onSessionSelect

SpecOverlays == Init /\ [][NextOverlays]_vars

---------------------------------------------------------------------------
(* SessionDashboard: filterAndSortSessions (part_000:38-94), the effect     *)
(* that runs when the list or one of the controls changed                   *)

\* what the search box, the two filters and the sort control are set to
SearchTerms == {"", "MARS", "abc"}
StatusFilters == {"all", "completed", "error"}
\* not "month": a month in milliseconds is beyond the integers of the model
DateFilters == {"all", "today", "week"}
SortOrders == {"desc", "asc"}

\* The cutoff of the date filter.  setHours(0, 0, 0, 0) goes back by the
\* time of day, setDate(getDate() - 7) by seven days.
filterDate(dateFilter, t, sinceMidnight) ==
    CASE dateFilter = "today" -> t - sinceMidnight
      [] dateFilter = "week" -> t - 7 * Day
      [] OTHER -> t

\* new Date(session.created_at) >= filterDate: false for the invalid date
\* that a missing created_at gives
notBefore(session, cutoff) ==
    Has(session, "created_at") /\ session.created_at >= cutoff

\* the three filters, one after the other
filtered(list, searchTerm, statusFilter, dateFilter, cutoff) ==
    LET bySearch ==
            IF searchTerm # ""
            THEN SelectSeq(list, LAMBDA session :
                    \/ Contains(toLowerCase(session.id),
                                toLowerCase(searchTerm))
                    \/ Contains(toLowerCase(StrOr(session,
                                                  "original_filename", "")),
                                toLowerCase(searchTerm)))
            ELSE list
        byStatus ==
            IF statusFilter # "all"
            THEN SelectSeq(bySearch,
                           LAMBDA session : session.status = statusFilter)
            ELSE bySearch
    IN IF dateFilter # "all"
       THEN SelectSeq(byStatus, LAMBDA session : notBefore(session, cutoff))
       ELSE byStatus

\* The comparison function of the sort on created_at: comparisons with an
\* invalid date are false.
compare(a, b, sortOrder) ==
    LET dated == Has(a, "created_at") /\ Has(b, "created_at") IN
    IF sortOrder = "asc"
    THEN IF dated /\ a.created_at > b.created_at THEN 1 ELSE -1
    ELSE IF dated /\ a.created_at < b.created_at THEN 1 ELSE -1

\* The orders Array.prototype.sort can leave the list in: the one the
\* comparison function defines, and any order when an element has no valid
\* date, the function being inconsistent then.
sorted(list, sortOrder) ==
    LET n == Len(list)
        orders == {p \in [1..n -> 1..n] : \A i, j \in 1..n : i # j => p[i] # p[j]}
        consistent == \A i \in 1..n : Has(list[i], "created_at")
    IN {[i \in 1..n |-> list[p[i]]] :
           p \in {q \in orders :
                     consistent =>
                         \A i \in 1..(n - 1) :
                             compare(list[q[i]], list[q[i + 1]], sortOrder)
                                 = -1}}

\* filterAndSortSessions() as the effect runs it, for every setting of the
\* controls, sorted by created_at
filterAndSortSessions_effect ==
    \E searchTerm \in SearchTerms : \E statusFilter \in StatusFilters :
    \E dateFilter \in DateFilters : \E sortOrder \in SortOrders :
    \E sinceMidnight \in {0, Day \div 2} :
        LET cutoff == filterDate(dateFilter, now, sinceMidnight)
            kept == filtered(sessions, searchTerm, statusFilter, dateFilter,
                             cutoff)
        IN \E filteredSessions \in sorted(kept, sortOrder) :
            /\ ClientStep
            /\ Shown
            /\ lastEvent' =
                  Event("filterAndSortSessions", "call",
                        [searchTerm |-> searchTerm,
                         statusFilter |-> statusFilter,
                         dateFilter |-> dateFilter, sortBy |-> "created_at",
                         sortOrder |-> sortOrder, cutoff |-> cutoff,
                         filteredSessions |-> filteredSessions])
            /\ UNCHANGED <<hook, lastDownload, overlay>>

\* The dashboard with its controls, while time passes.
NextFilter ==
    \/ loadSessions_call
    \/ loadSessions_return
    \/ loadSessions_catch
    \/ filterAndSortSessions_effect
    \/ timePasses

SpecFilter == Init /\ [][NextFilter]_vars

---------------------------------------------------------------------------
(* ProgressIndicator (ProgressIndicator.jsx)                                *)

\* the titles of processSteps, the `steps` SageInventoryApp passes
processSteps ==
    <<"Import du fichier Sage X3", "Génération du template",
      "Saisie des quantités", "Calcul des écarts",
      "Génération du fichier final">>

\* the values the `status` property is given, and those the component tests
StatusProps == {"idle", "processing", "uploading", "error", "success"}

\* getStepStatus that takes `uploading` for no activity
getStepStatus_uploadingIsIdle(stepIndex, current, status) ==
    IF stepIndex < current THEN "completed"
    ELSE IF stepIndex = current
    THEN IF status = "error" THEN "error"
         ELSE IF status = "processing" THEN "processing"
         ELSE "current"
    ELSE "pending"

getStepStatus(stepIndex, current, status) ==
    IF stepIndex < current THEN "completed"
    ELSE IF stepIndex = current
    THEN IF status = "error" THEN "error"
         ELSE IF status = "processing" \/ status = "uploading"
         THEN "processing"
         ELSE "current"
    ELSE "pending"

\* Math.round((currentStep / (steps.length - 1)) * 100), for a list of two
\* steps or more and a step index that is not negative: the half rounds up
globalPercentage(current, list) ==
    (200 * current + (Len(list) - 1)) \div (2 * (Len(list) - 1))

\* One render of the component: the status of one step and the percentage,
\* for the properties it is given.
ProgressIndicator_render ==
    \E stepIndex \in 0..(Len(processSteps) - 1) :
    \E current \in 0..(Len(processSteps) - 1) : \E status \in StatusProps :
        /\ ClientStep
        /\ lastEvent' =
              Event("ProgressIndicator", "render",
                    [stepIndex |-> stepIndex, currentStep |-> current,
                     status |-> status, steps |-> processSteps,
                     stepStatus |-> getStepStatus(stepIndex, current, status),
                     percentage |-> globalPercentage(current, processSteps)])
        /\ UNCHANGED <<hook, lastDownload, overlay>>

SpecProgress == Init /\ [][ProgressIndicator_render]_vars

---------------------------------------------------------------------------
(* Vocabulary of the properties *)

\* the step just taken is the synchronous part of handler h
Called(h) ==
    /\ steps' = steps + 1
    /\ lastEvent'.handler = h
    /\ lastEvent'.phase = "call"

\* the step just taken is the continuation of handler h after its await
Settled(h) ==
    /\ steps' = steps + 1
    /\ lastEvent'.handler = h
    /\ lastEvent'.phase = "settle"

\* the last step was such a step
WasCalled(h) == lastEvent.handler = h /\ lastEvent.phase = "call"
WasSettled(h) == lastEvent.handler = h /\ lastEvent.phase = "settle"

\* the step appends exactly one toast, of the given kind
OneToast(type) ==
    /\ Len(toasts') = Len(toasts) + 1
    /\ SubSeq(toasts', 1, Len(toasts)) = toasts
    /\ Last(toasts').type = type

\* the step issues no request
NoRequest == pending' \ pending = {}

\* the step issues exactly one request, with this method, path and form
OneRequest(method, endpoint, form) ==
    \E r \in pending' \ pending :
        /\ pending' \ pending = {r}
        /\ r.method = method
        /\ r.endpoint = endpoint
        /\ r.form = form

\* a response with a success status whose body is JSON
Successful(resp) ==
    resp.settled = "fulfilled" /\ resp.ok /\ "json" \in DOMAIN resp.body

\* the backend's `error` string, when the response carries one
BackendError(resp) ==
    IF /\ resp.settled = "fulfilled"
       /\ "json" \in DOMAIN resp.body
       /\ "error" \in DOMAIN resp.body.json
    THEN resp.body.json.error
    ELSE ""

\* has(o) : the stored result carries this non-empty string field
Carries(o, f) == f \in DOMAIN o /\ o[f] # ""

---------------------------------------------------------------------------
(* C1: when handleUploadFile runs with a source file selected, Phase-1     *)
(* status becomes `uploading` and the step index 0 in the step that sends  *)
(* POST /upload; when the response is successful, Phase-1 status becomes   *)
(* `success`, the step index 1, the stored UploadResult is the response    *)
(* body, and exactly one success toast is added.                           *)
C1_UploadSucceeds ==
    [][/\ (Called("handleUploadFile") /\ originalFile # Null) =>
              /\ uploadStatus' = "uploading"
              /\ currentStep' = 0
              /\ OneRequest("POST", "/upload", [file |-> originalFile])
       /\ (/\ Settled("handleUploadFile")
           /\ Successful(lastEvent'.input.response)) =>
              /\ uploadStatus' = "success"
              /\ currentStep' = 1
              /\ uploadResult' = lastEvent'.input.response.body.json
              /\ OneToast("success")]_vars

\* the specification's example response has been received
C1_Witness ==
    /\ WasSettled("handleUploadFile")
    /\ Successful(lastEvent.input.response)
    /\ lastEvent.input.request.form.file = SageFile
    /\ uploadStatus = "success"
    /\ currentStep = 1
    /\ uploadResult.session_id = "abc123"
    /\ uploadResult.stats =
           [nb_articles |-> 10, total_quantity |-> 500, nb_lots |-> 3]
    /\ Last(toasts).type = "success"

(* C2: when the /upload request fails (non-success status, network error   *)
(* or unparsable body), Phase-1 status becomes `error`, the error text is  *)
(* the backend's `error` string when the response carries one and another  *)
(* non-empty message otherwise, exactly one error toast with the same text *)
(* is added, and the stored UploadResult is cleared.                       *)
C2_UploadFails ==
    [][(/\ Settled("handleUploadFile")
        /\ ~Successful(lastEvent'.input.response)) =>
           /\ uploadStatus' = "error"
           /\ error' # ""
           /\ BackendError(lastEvent'.input.response) # "" =>
                  error' = BackendError(lastEvent'.input.response)
           /\ BackendError(lastEvent'.input.response) = "" =>
                  error' \in {MsgUploadFailed, NetworkError.message,
                              BadGateway.body.syntaxError}
           /\ OneToast("error")
           /\ Last(toasts').message = error'
           /\ uploadResult' = Null]_vars

\* a refused upload arrived while the result of a resumed session was
\* stored: in three steps, the session was resumed, the upload sent and
\* its refusal received
C2_Witness ==
    /\ WasSettled("handleUploadFile")
    /\ steps = 3
    /\ originalFile # Null
    /\ originalFile.size = 0
    /\ lastEvent.input.response = Refused("Format de fichier invalide")
    /\ uploadStatus = "error"
    /\ error = "Format de fichier invalide"
    /\ uploadResult = Null
    /\ Last(toasts).type = "error"

(* C3: when handleUploadFile runs with no source file selected, Phase-1    *)
(* status is left as it was (`idle` stays `idle`), the validation error is *)
(* set, exactly one error toast is added and no request is issued.         *)
C3_UploadWithoutFile ==
    [][(Called("handleUploadFile") /\ originalFile = Null) =>
           /\ uploadStatus' = uploadStatus
           /\ error' # ""
           /\ OneToast("error")
           /\ Last(toasts').message = error'
           /\ NoRequest]_vars

C3_Witness ==
    /\ WasCalled("handleUploadFile")
    /\ originalFile = Null
    /\ uploadStatus = "idle"
    /\ error = MsgNoOriginalFile
    /\ Len(toasts) = 1
    /\ Last(toasts).type = "error"
    /\ pending = {}

(* C4: when handleProcessCompleted runs with a completed file selected and *)
(* a stored session id, Phase-2 status becomes `processing` and the step   *)
(* index 3 in the step that sends POST /process; on a successful response  *)
(* Phase-2 status becomes `success`, the step index 4, the ProcessResult   *)
(* is the response body and one success toast is added; on a failure       *)
(* Phase-2 status becomes `error`, the error text is set, one error toast  *)
(* with that text is added and the stored ProcessResult is cleared.        *)
C4_ProcessRuns ==
    [][/\ (/\ Called("handleProcessCompleted")
           /\ completedFile # Null
           /\ Carries(uploadResult, "session_id")) =>
              /\ processStatus' = "processing"
              /\ currentStep' = 3
              /\ \E r \in pending' \ pending :
                     /\ pending' \ pending = {r}
                     /\ r.method = "POST"
                     /\ r.endpoint = "/process"
                     /\ r.form.file = completedFile
                     /\ r.form.session_id = uploadResult.session_id
       /\ (/\ Settled("handleProcessCompleted")
           /\ Successful(lastEvent'.input.response)) =>
              /\ processStatus' = "success"
              /\ currentStep' = 4
              /\ processResult' = lastEvent'.input.response.body.json
              /\ OneToast("success")
       /\ (/\ Settled("handleProcessCompleted")
           /\ ~Successful(lastEvent'.input.response)) =>
              /\ processStatus' = "error"
              /\ error' # ""
              /\ OneToast("error")
              /\ Last(toasts').message = error'
              /\ processResult' = Null]_vars

\* the completed file of session abc123 was processed
C4_Witness ==
    /\ WasSettled("handleProcessCompleted")
    /\ Successful(lastEvent.input.response)
    /\ lastEvent.input.request.form.session_id = "abc123"
    /\ processStatus = "success"
    /\ currentStep = 4
    /\ processResult.final_url = "/api/download/final/abc123"
    /\ Last(toasts).type = "success"

(* C5: POST /process is issued only by a step taken with a completed file  *)
(* selected and a session id stored; when handleProcessCompleted runs with *)
(* either missing, it sets a validation error, adds one error toast with   *)
(* that text, issues no request and leaves Phase-2 status and the step     *)
(* index unchanged.                                                        *)
C5_ProcessNeedsFileAndSession ==
    [][/\ \A r \in pending' \ pending :
              r.endpoint = "/process" =>
                  /\ completedFile # Null
                  /\ Carries(uploadResult, "session_id")
       /\ (/\ Called("handleProcessCompleted")
           /\ (completedFile = Null \/ ~Carries(uploadResult, "session_id")))
              =>
              /\ error' # ""
              /\ OneToast("error")
              /\ Last(toasts').message = error'
              /\ NoRequest
              /\ processStatus' = processStatus
              /\ currentStep' = currentStep]_vars

\* Phase 2 was triggered with a completed file but no session
C5_Witness ==
    /\ WasCalled("handleProcessCompleted")
    /\ completedFile = FilledTemplate
    /\ ~Carries(uploadResult, "session_id")
    /\ error = MsgNoUpload
    /\ Last(toasts).type = "error"
    /\ processStatus = "idle"
    /\ pending = {}

\* session.stats.f, 0 when the session has no stats or the stats no field f
StatOf(session, f) ==
    IF "stats" \in DOMAIN session /\ f \in DOMAIN session.stats
    THEN session.stats[f]
    ELSE 0

\* session.stats.strategy_used, FIFO when missing
StrategyOf(session) ==
    IF "stats" \in DOMAIN session /\ "strategy_used" \in DOMAIN session.stats
    THEN session.stats.strategy_used
    ELSE "FIFO"

(* C6: handleSessionSelect with a session of status `completed` issues no  *)
(* request and sets, whatever the state before: Phase-1 status `success`,  *)
(* an UploadResult with the session's id and stats, Phase-2 status         *)
(* `success`, step index 4 and a ProcessResult whose final_url is          *)
(* /api/download/final/{session.id} and whose stats are the session's      *)
(* discrepancy, adjusted-item count and strategy (missing numbers 0,       *)
(* missing strategy FIFO).                                                 *)
C6_ResumeCompleted ==
    [][(/\ Called("handleSessionSelect")
        /\ lastEvent'.input.status = "completed") =>
           LET session == lastEvent'.input IN
           /\ NoRequest
           /\ uploadStatus' = "success"
           /\ uploadResult' =
                  [session_id |-> session.id,
                   stats |-> [nb_articles |-> StatOf(session, "nb_articles"),
                              total_quantity |->
                                  StatOf(session, "total_quantity"),
                              nb_lots |-> StatOf(session, "nb_lots")]]
           /\ processStatus' = "success"
           /\ currentStep' = 4
           /\ processResult' =
                  [final_url |-> "/api/download/final/" \o session.id,
                   stats |-> [total_discrepancy |->
                                  StatOf(session, "total_discrepancy"),
                              adjusted_items |->
                                  StatOf(session, "adjusted_items_count"),
                              strategy_used |-> StrategyOf(session)]]]_vars

\* the specification's example session was resumed while the /process
\* request of another run was still in flight
C6_Witness ==
    /\ WasCalled("handleSessionSelect")
    /\ lastEvent.input = SessCompleted
    /\ uploadStatus = "success"
    /\ uploadResult.stats.nb_articles = 5
    /\ uploadResult.stats.total_quantity = 200
    /\ processStatus = "success"
    /\ currentStep = 4
    /\ processResult.stats =
           [total_discrepancy |-> 12, adjusted_items |-> 4,
            strategy_used |-> "LIFO"]
    /\ \E r \in pending : r.endpoint = "/process"

(* C7: handleSessionSelect with a session of status `template_generated`   *)
(* issues no request and sets, whatever the state before: Phase-1 status   *)
(* `success`, an UploadResult with the session's id and stats (missing     *)
(* numbers 0), step index 1, Phase-2 status `idle` and no ProcessResult.   *)
C7_ResumeTemplate ==
    [][(/\ Called("handleSessionSelect")
        /\ lastEvent'.input.status = "template_generated") =>
           LET session == lastEvent'.input IN
           /\ NoRequest
           /\ uploadStatus' = "success"
           /\ uploadResult' =
                  [session_id |-> session.id,
                   stats |-> [nb_articles |-> StatOf(session, "nb_articles"),
                              total_quantity |->
                                  StatOf(session, "total_quantity"),
                              nb_lots |-> StatOf(session, "nb_lots")]]
           /\ currentStep' = 1
           /\ processStatus' = "idle"
           /\ processResult' = Null]_vars

\* a session without stats was resumed after another one had been completed
C7_Witness ==
    /\ WasCalled("handleSessionSelect")
    /\ lastEvent.input = SessTemplateBare
    /\ uploadStatus = "success"
    /\ uploadResult =
           [session_id |-> "abc123",
            stats |-> [nb_articles |-> 0, total_quantity |-> 0, nb_lots |-> 0]]
    /\ currentStep = 1
    /\ processStatus = "idle"
    /\ processResult = Null
    /\ lastDownload = "inventaire_corrige_def456.csv"

(* C8: handleSessionSelect with a session whose status is neither          *)
(* `template_generated` nor `completed` changes neither file slot and      *)
(* neither stored result, adds exactly one info toast naming the session   *)
(* id and its raw status, and issues no request.                           *)
C8_ResumeOtherOnlyInforms ==
    [][(/\ Called("handleSessionSelect")
        /\ lastEvent'.input.status \notin {"template_generated", "completed"})
           =>
           /\ originalFile' = originalFile
           /\ completedFile' = completedFile
           /\ uploadResult' = uploadResult
           /\ processResult' = processResult
           /\ OneToast("info")
           /\ Last(toasts').message =
                  "Session " \o lastEvent'.input.id \o " sélectionnée (statut: "
                      \o lastEvent'.input.status \o ")"
           /\ NoRequest]_vars

(* C9: right after resetAll both file slots are empty, both statuses are   *)
(* `idle`, both results are empty, the error text is empty, the step index *)
(* is 0, the progress details are empty, and exactly one info toast has    *)
(* been added.                                                             *)
C9_ResetClearsAll ==
    [][Called("resetAll") =>
           /\ originalFile' = Null
           /\ completedFile' = Null
           /\ uploadStatus' = "idle"
           /\ processStatus' = "idle"
           /\ uploadResult' = Null
           /\ processResult' = Null
           /\ error' = ""
           /\ currentStep' = 0
           /\ progressDetails' = ""
           /\ OneToast("info")]_vars

\* a reset after a completed session was resumed and its file downloaded
C9_Witness ==
    /\ WasCalled("resetAll")
    /\ lastDownload # ""
    /\ originalFile = Null
    /\ completedFile = Null
    /\ uploadStatus = "idle"
    /\ processStatus = "idle"
    /\ uploadResult = Null
    /\ processResult = Null
    /\ error = ""
    /\ currentStep = 0
    /\ progressDetails = ""
    /\ Last(toasts).type = "info"

FinalPaths == {"/download/final/" \o sid : sid \in SessionIds}

(* C10: GET /download/final/{sessionId} is issued only by a step taken     *)
(* with a session id in the stored UploadResult and a final_url in the     *)
(* stored ProcessResult, and handleDownloadFinalFile then issues exactly   *)
(* that request; otherwise it sets a validation error, adds one error      *)
(* toast with that text and issues no request.                             *)
C10_FinalDownloadNeedsSessionAndUrl ==
    [][/\ \A r \in pending' \ pending :
              r.endpoint \in FinalPaths =>
                  /\ Carries(uploadResult, "session_id")
                  /\ Carries(processResult, "final_url")
                  /\ r.method = "GET"
                  /\ r.endpoint = "/download/final/" \o uploadResult.session_id
       /\ (/\ Called("handleDownloadFinalFile")
           /\ Carries(uploadResult, "session_id")
           /\ Carries(processResult, "final_url")) =>
              \E r \in pending' \ pending :
                  /\ pending' \ pending = {r}
                  /\ r.endpoint \in FinalPaths
       /\ (/\ Called("handleDownloadFinalFile")
           /\ ~(/\ Carries(uploadResult, "session_id")
                /\ Carries(processResult, "final_url"))) =>
              /\ error' # ""
              /\ OneToast("error")
              /\ Last(toasts').message = error'
              /\ NoRequest]_vars

\* the final download was asked for after Phase 1 only
C10_Witness ==
    /\ WasCalled("handleDownloadFinalFile")
    /\ Carries(uploadResult, "session_id")
    /\ ~Carries(processResult, "final_url")
    /\ error = MsgNoFinalUrl
    /\ Last(toasts).type = "error"
    /\ Last(toasts).message = MsgNoFinalUrl
    /\ pending = {}

---------------------------------------------------------------------------
\* the step just taken ends a call of the hook that raised
HookCallFailed ==
    /\ steps' = steps + 1
    /\ lastEvent'.phase = "settle"
    /\ ~Returns(lastEvent'.input.request, lastEvent'.input.response)

(* C11: every failed backend request is converted into operator-visible   *)
(* state where it was issued: the step that ends the failed call sets the *)
(* inline error text or adds an error toast, and leaves no rejection      *)
(* unhandled.  Stated for the calls of the session dashboard.             *)
C11_FailuresAreSurfaced ==
    [][HookCallFailed =>
          /\ error' # "" \/ OneToast("error")
          /\ unhandled' = unhandled]_vars

---------------------------------------------------------------------------
(* C12: after a failed upload the operator can trigger the upload again   *)
(* without reloading and without resuming a session: whenever Phase-1     *)
(* status is `error`, the screen offers the file picker or the upload     *)
(* trigger, or the reset that leads back to them.                         *)
C12_RetryOfferedAfterFailedUpload ==
    uploadStatus = "error" => Phase1Picker \/ Phase1Trigger \/ ResetOffered

---------------------------------------------------------------------------
\* a request of handler h that is in flight before and after the step
Unanswered(h) == \E r \in pending \cap pending' : r.handler = h

(* C13 as stated: while an /upload request has no response Phase-1 status *)
(* stays `uploading`, and while a /process request has no response        *)
(* Phase-2 status stays `processing`, whatever step is taken.             *)
C13_HungRequestKeepsStatus ==
    [][/\ (Unanswered("handleUploadFile") /\ uploadStatus = "uploading")
              => uploadStatus' = "uploading"
       /\ (Unanswered("handleProcessCompleted")
              /\ processStatus = "processing")
              => processStatus' = "processing"]_vars

\* the step resumes a session whose status is one of the two resumed ones
ResumesSession ==
    /\ Called("handleSessionSelect")
    /\ lastEvent'.input.status \in {"completed", "template_generated"}

(* C13, amended: no timer and no abort exists, but the operator can       *)
(* override an in-flight status.  Phase-1 status leaves `uploading` only  *)
(* in a step that settles an /upload request, resumes a `completed` or    *)
(* `template_generated` session, or resets the workflow; Phase-2 status   *)
(* leaves `processing` only in a step that settles a /process request,    *)
(* resumes such a session, or resets the workflow.                        *)
C13_OnlyResumeOrResetOverrides ==
    [][/\ (uploadStatus = "uploading" /\ uploadStatus' # "uploading")
              => \/ Settled("handleUploadFile")
                 \/ ResumesSession
                 \/ Called("resetAll")
       /\ (processStatus = "processing" /\ processStatus' # "processing")
              => \/ Settled("handleProcessCompleted")
                 \/ ResumesSession
                 \/ Called("resetAll")]_vars

\* a session was resumed while the upload had no response yet: Phase 1
\* shows success and the request is still in flight
C13_Witness ==
    /\ WasCalled("handleSessionSelect")
    /\ uploadStatus = "success"
    /\ \E r \in pending : r.handler = "handleUploadFile"

---------------------------------------------------------------------------
\* the step just taken ends a call that went through the request primitive
PrimitiveExits ==
    /\ steps' = steps + 1
    /\ lastEvent'.phase = "settle"
    /\ lastEvent'.input.request.op \in
          {"uploadFile", "processFile", "getSessions", "deleteSession",
           "getHealth"}

\* a response with a non-success status
NonSuccess(resp) == resp.settled = "fulfilled" /\ ~resp.ok

\* its body is JSON and contains an `error` field
HasErrorField(resp) ==
    /\ "json" \in DOMAIN resp.body
    /\ "error" \in DOMAIN resp.body.json

(* C14 as stated: for any non-2xx JSON response that contains an `error`  *)
(* field, the request primitive raises an error whose message is exactly  *)
(* that field's string, and the shared `error` is set to the same string. *)
C14_ErrorFieldIsTheMessage ==
    [][LET resp == lastEvent'.input.response IN
       (PrimitiveExits /\ NonSuccess(resp) /\ HasErrorField(resp)) =>
           /\ raised' = [message |-> resp.body.json.error]
           /\ apiError' = <<resp.body.json.error>>]_vars

(* C14, amended: the same for an `error` field that is a non-empty        *)
(* string; an empty `error` string is treated as an absent one, and the   *)
(* message raised and stored is the generated "Erreur HTTP: <status>".    *)
C14_NonEmptyErrorFieldIsTheMessage ==
    [][LET resp == lastEvent'.input.response IN
       (PrimitiveExits /\ NonSuccess(resp) /\ HasErrorField(resp)) =>
           /\ resp.body.json.error # "" =>
                 /\ raised' = [message |-> resp.body.json.error]
                 /\ apiError' = <<resp.body.json.error>>
           /\ resp.body.json.error = "" =>
                 /\ raised' = [message |->
                                 "Erreur HTTP: " \o ToString(resp.status)]
                 /\ apiError' =
                       <<"Erreur HTTP: " \o ToString(resp.status)>>]_vars

\* a delete through the hook was refused with the backend's text, which is
\* the message raised and the shared error
C14_Witness ==
    /\ WasSettled("deleteSession")
    /\ lastEvent.input.response = Refused("Session introuvable")
    /\ raised = [message |-> "Session introuvable"]
    /\ apiError = <<"Session introuvable">>
    /\ ~loading

---------------------------------------------------------------------------
(* C15: for any non-2xx response that lacks an `error` field, a response  *)
(* whose body is empty or not JSON included, the request primitive raises *)
(* an error whose message contains the numeric HTTP status.               *)
C15_StatusInGeneratedMessage ==
    [][LET resp == lastEvent'.input.response IN
       (PrimitiveExits /\ NonSuccess(resp) /\ ~HasErrorField(resp)) =>
           /\ raised' # Null
           /\ Contains(raised'.message, ToString(resp.status))]_vars

---------------------------------------------------------------------------
\* the operations of the hook
Operations ==
    {"uploadFile", "processFile", "downloadFile", "getSessions",
     "deleteSession", "getHealth"}

(* C16: for every operation of the hook, the step that starts the call    *)
(* clears the shared `error` and leaves `loading` true, and the step in   *)
(* which the call exits, returning or raising, leaves `loading` false.    *)
C16_LoadingAroundEveryCall ==
    [][/\ (Called(lastEvent'.handler) /\ lastEvent'.handler \in Operations)
              => apiError' = Null /\ loading' = TRUE
       /\ (Settled(lastEvent'.handler)
              /\ lastEvent'.handler \in Operations)
              => loading' = FALSE]_vars

---------------------------------------------------------------------------
(* C17: a toast created with the default duration is invisible once more  *)
(* than 5000 ms have passed since its creation (its id is the time of its *)
(* creation) and is no longer in the active list once more than 5300 ms   *)
(* have passed, whatever else happened in the application.                *)
C17_DefaultToastLifetime ==
    \A i \in 1..Len(toasts) :
        toasts[i].duration = 5000 =>
            /\ now > toasts[i].id + 5000 => ~mounted[i].isVisible
            /\ now <= toasts[i].id + 5300

---------------------------------------------------------------------------
(* C18: every toast added to the active list is eventually removed from   *)
(* it, by its timer or by its close button, also when toasts are added or *)
(* removed and the orchestrator's state changes meanwhile, once that      *)
(* activity has stopped (the run's operator steps are bounded): whenever  *)
(* the list holds toasts, it is empty at some later time.                 *)
C18_ToastsAreEventuallyRemoved == (toasts # <<>>) ~> (toasts = <<>>)

\* the last toast was removed by onClose after the container had been
\* remounted: it left the list later than 5300 ms after its creation
C18_Witness ==
    /\ lastEvent.handler = "Toast"
    /\ lastEvent.phase = "onClose"
    /\ toasts = <<>>
    /\ now > lastEvent.input.id + 5300

---------------------------------------------------------------------------
(* C19 *)

\* C19: once the wrapper has caught a rendering failure it is tripped and
\* stays tripped: from a tripped state the screen is the recovery screen,
\* which offers the reload alone, and every step other than the reload
\* leaves the wrapper tripped, renders the recovery screen again and
\* changes nothing of the wrapped subtree.
C19_TrippedUntilReload ==
    [][boundaryState.hasError =>
          /\ render(boundaryState) = "recovery"
          /\ Offered = {"handleReload"}
          /\ \/ lastEvent'.handler = "handleReload"
             \/ /\ boundaryState' = boundaryState
                /\ render(boundaryState') = "recovery"
                /\ <<sessions, selectedSessions, hook>>' =
                      <<sessions, selectedSessions, hook>>]_vars

\* tripped with a request of the subtree still unanswered, and the wrapper
\* rendered again since
C19_Witness ==
    /\ boundaryState.hasError
    /\ apiPending # {}
    /\ lastEvent = Event("ErrorBoundary", "render", "recovery")

---------------------------------------------------------------------------
(* C20 *)

\* a bulk delete ends with this step: a delete call of its loop settled and
\* the loop issued no further call
BulkDeleteEnds ==
    /\ steps' = steps + 1
    /\ lastEvent'.handler = "handleBulkAction"
    /\ lastEvent'.phase = "settle"
    /\ apiPending' \subseteq apiPending

\* C20: when a bulk delete of N selected sessions ends it has issued N
\* delete calls, one per selected session, the sessions listed afterwards
\* are those listed before without the N selected ones, and the selection
\* is empty.
C20_BulkDeleteRemovesSelected ==
    [][BulkDeleteEnds =>
          LET run == lastEvent'.input.request.closure IN
          /\ run.i = Len(run.selectedSessions)
          /\ sessions' =
                SelectSeq(sessions,
                          LAMBDA s0 : ~includes(run.selectedSessions, s0.id))
          /\ selectedSessions' = <<>>]_vars

---------------------------------------------------------------------------
(* C21 *)

\* the ids of a list of sessions
Ids(list) == {list[i].id : i \in 1..Len(list)}

\* C21: when a bulk delete ends, also by a failure part-way, every selected
\* session whose delete call completed successfully is absent from the
\* list displayed afterwards, and every session listed before whose delete
\* did not complete is still listed.
C21_RemovalMatchesCompletedDeletes ==
    [][BulkDeleteEnds =>
          LET req == lastEvent'.input.request
              run == req.closure
              done == {run.selectedSessions[k] :
                          k \in {j \in 1..Len(run.selectedSessions) :
                                    \/ j < run.i
                                    \/ /\ j = run.i
                                       /\ Returns(req,
                                                  lastEvent'.input.response)}}
          IN /\ Ids(sessions') \cap done = {}
             /\ Ids(sessions) \ done \subseteq Ids(sessions')]_vars

---------------------------------------------------------------------------
(* C22 *)

\* the step just taken ends a delete call of the quick panel that succeeded
PanelDeleteSucceeded ==
    /\ steps' = steps + 1
    /\ lastEvent'.handler = "SessionManager.handleDelete"
    /\ lastEvent'.phase = "settle"
    /\ Returns(lastEvent'.input.request, lastEvent'.input.response)

\* C22: in the quick panel a DELETE /sessions/{id} is issued only by a step
\* taken with the confirmation dialog open for that id; the step that ends
\* a successful delete removes that session and no other from the list
\* displayed, closes the dialog and issues no request.
C22_ConfirmedDeleteRemovesOne ==
    [][/\ \A req \in apiPending' \ apiPending :
              req.op = "deleteSession" =>
                  /\ isOpen
                  /\ deleteConfirm # ""
                  /\ req.endpoint = "/sessions/" \o deleteConfirm
       /\ PanelDeleteSucceeded =>
              /\ sessions' =
                    FilterOut(sessions,
                              lastEvent'.input.request.closure.sessionId)
              /\ deleteConfirm' = ""
              /\ apiPending' \subseteq apiPending]_vars

---------------------------------------------------------------------------
(* C23 *)

\* the step just taken belongs to the row delete of the dashboard
RowDeleteStep(phase) ==
    /\ steps' = steps + 1
    /\ lastEvent'.handler = "rowDelete"
    /\ lastEvent'.phase = phase

\* C23: the click on "Supprimer" of a dashboard row issues the DELETE call
\* in that very step and nothing else; the step that ends the delete
\* issues GET /sessions when it succeeded and nothing when it failed; and
\* the step that ends a successful GET /sessions replaces the whole list by
\* the one of the response.
C23_RowDeleteThenReload ==
    [][/\ RowDeleteStep("call") =>
              /\ lastEvent'.input.method = "DELETE"
              /\ lastEvent'.input \notin apiPending
              /\ apiPending' = apiPending \cup {lastEvent'.input}
       /\ RowDeleteStep("settle") =>
              LET del == lastEvent'.input.request
                  issued == apiPending' \ apiPending
              IN /\ del \in apiPending
                 /\ apiPending \ apiPending' = {del}
                 /\ IF Returns(del, lastEvent'.input.response)
                    THEN \E get \in issued :
                            /\ issued = {get}
                            /\ get.method = "GET"
                            /\ get.endpoint = "/sessions"
                    ELSE issued = {}
       /\ (/\ steps' = steps + 1
           /\ lastEvent'.handler = "loadSessions"
           /\ lastEvent'.phase = "settle"
           /\ Returns(lastEvent'.input.request, lastEvent'.input.response))
              => sessions' =
                    IF Has(lastEvent'.input.response.body.json, "sessions")
                    THEN lastEvent'.input.response.body.json.sessions
                    ELSE <<>>]_vars

\* a row delete succeeded and the list it asked for is on its way
C23_Witness ==
    /\ lastEvent.handler = "rowDelete"
    /\ lastEvent.phase = "settle"
    /\ Returns(lastEvent.input.request, lastEvent.input.response)
    /\ \E get \in apiPending :
          get.op = "getSessions" /\ get.id > lastEvent.input.request.id

---------------------------------------------------------------------------
(* C24 *)

\* The creation timestamp of a session as the backend lists it: the field
\* created_at, or created in the other shape of the response.
CreationTimes(session) ==
    IF Has(session, "created_at") THEN {session.created_at}
    ELSE IF Has(session, "created") THEN {session.created}
    ELSE {}

\* the session passes the search box, the status filter, the date filter
PassesSearch(session, searchTerm) ==
    \/ searchTerm = ""
    \/ Contains(toLowerCase(session.id), toLowerCase(searchTerm))
    \/ /\ Has(session, "original_filename")
       /\ Contains(toLowerCase(session.original_filename),
                   toLowerCase(searchTerm))

PassesStatus(session, statusFilter) ==
    statusFilter = "all" \/ session.status = statusFilter

PassesDate(session, dateFilter, t, cutoff) ==
    CASE dateFilter = "all" -> TRUE
      [] dateFilter = "week" ->
            \E created \in CreationTimes(session) : created >= t - 7 * Day
      [] OTHER -> \E created \in CreationTimes(session) : created >= cutoff

\* C24: the list the dashboard displays after filterAndSortSessions holds
\* exactly the sessions of the in-memory list that pass the search filter
\* and the status filter and the date filter, each of them once; with the
\* date filter `week` a session passes iff its creation timestamp is not
\* earlier than the current time minus seven days.
C24_DisplayedAreTheMatching ==
    [][(steps' = steps + 1 /\ lastEvent'.handler = "filterAndSortSessions") =>
          LET in == lastEvent'.input
              shown == in.filteredSessions
              matching ==
                  {i \in 1..Len(sessions) :
                      /\ PassesSearch(sessions[i], in.searchTerm)
                      /\ PassesStatus(sessions[i], in.statusFilter)
                      /\ PassesDate(sessions[i], in.dateFilter, now,
                                    in.cutoff)}
          IN /\ {shown[k] : k \in 1..Len(shown)}
                    = {sessions[i] : i \in matching}
             /\ Len(shown) = Cardinality(matching)]_vars

---------------------------------------------------------------------------
(* C25 *)

\* C25: a render of the progress indicator gives step i the state
\* `completed` if i < c, `pending` if i > c, and for i = c `error` if the
\* status is `error`, else `processing` if it is `processing` or
\* `uploading`, else `current`; with 5 steps, c = 2 and status `processing`
\* the percentage is 50.
C25_StepStatusAndPercentage ==
    lastEvent.handler = "ProgressIndicator" =>
        LET in == lastEvent.input
            i == in.stepIndex
            c == in.currentStep
        IN /\ i < c => in.stepStatus = "completed"
           /\ i > c => in.stepStatus = "pending"
           /\ (i = c /\ in.status = "error") => in.stepStatus = "error"
           /\ (i = c /\ in.status \in {"processing", "uploading"})
                 => in.stepStatus = "processing"
           /\ (i = c /\ in.status \notin {"error", "processing",
                                           "uploading"})
                 => in.stepStatus = "current"
           /\ (Len(in.steps) = 5 /\ c = 2 /\ in.status = "processing")
                 => in.percentage = 50

\* the third of five steps rendered while an upload is under way
C25_Witness ==
    /\ lastEvent.handler = "ProgressIndicator"
    /\ Len(lastEvent.input.steps) = 5
    /\ lastEvent.input.stepIndex = 2
    /\ lastEvent.input.currentStep = 2
    /\ lastEvent.input.status = "uploading"
    /\ lastEvent.input.stepStatus = "processing"
    /\ lastEvent.input.percentage = 50

---------------------------------------------------------------------------
(* C26, C27 *)

\* a download has just been saved: the request and the header it was
\* answered with
DownloadSaved ==
    /\ lastEvent.phase = "settle"
    /\ lastEvent.handler \in {"handleDownloadTemplate",
                              "handleDownloadFinalFile", "downloadFile"}
    /\ lastEvent.input.response.settled = "fulfilled"
    /\ lastEvent.input.response.ok

SavedHeader == lastEvent.input.response.disposition

\* the default name of each of the three paths
DefaultName ==
    LET req == lastEvent.input.request IN
    CASE lastEvent.handler = "handleDownloadTemplate" ->
            "inventaire_template_" \o req.session_id \o ".xlsx"
      [] lastEvent.handler = "handleDownloadFinalFile" ->
            "inventaire_corrige_" \o req.session_id \o ".csv"
      [] OTHER ->
            req.closure.type \o "_" \o req.closure.sessionId \o
                (IF req.closure.type = "template" THEN ".xlsx" ELSE ".csv")

\* the values of the parameters filename="..." of a header
QuotedValues(header) ==
    LET lower == toLowerCase(header) IN
    {SubSeq(header, p + 10, RunEnd(header, p + 10, "\"")) :
        p \in {p \in 1..Len(header) :
            /\ StartsAt(lower, p, "filename=\"")
            /\ RunEnd(header, p + 10, "\"") >= p + 10
            /\ RunEnd(header, p + 10, "\"") < Len(header)}}

\* the values of the parameters filename*=UTF-8''... of a header
StarValues(header) ==
    LET lower == toLowerCase(header) IN
    {SubSeq(header, p + 17, RunEnd(header, p + 17, ";")) :
        p \in {p \in 1..Len(header) :
            /\ StartsAt(lower, p, "filename*=utf-8''")
            /\ RunEnd(header, p + 17, ";") >= p + 17}}

\* the values of the parameters filename=... without quotes
BareValues(header) ==
    LET lower == toLowerCase(header) IN
    {trim(SubSeq(header, p + 9, RunEnd(header, p + 9, ";"))) :
        p \in {p \in 1..Len(header) :
            /\ StartsAt(lower, p, "filename=")
            /\ ~StartsAt(header, p + 9, "\"")
            /\ RunEnd(header, p + 9, ";") >= p + 9}}

Decoded(value) ==
    IF decodeURIComponent(value).threw THEN value
    ELSE decodeURIComponent(value).text

C27_StarThenQuotedThenBare ==
    DownloadSaved =>
        /\ StarValues(SavedHeader) # {}
              => lastDownload \in {Decoded(v) : v \in StarValues(SavedHeader)}
        /\ (StarValues(SavedHeader) = {} /\ QuotedValues(SavedHeader) # {})
              => lastDownload \in QuotedValues(SavedHeader)
        /\ (/\ StarValues(SavedHeader) = {}
            /\ QuotedValues(SavedHeader) = {}
            /\ BareValues(SavedHeader) # {})
              => lastDownload \in BareValues(SavedHeader)

---------------------------------------------------------------------------
(* C28, C29 *)

\* C28: the quick panel hands a session to the selection callback only if
\* its status is template_generated or completed.
C28_PanelResumesOnlyResumable ==
    [][(lastEvent'.handler = "handleSessionSelect" /\ steps' = steps + 1) =>
          lastEvent'.input.status \in {"template_generated", "completed"}]_vars

\* C29: each row the dashboard shows offers the downloads the quick panel
\* offers for its status: the template for template_generated, the template
\* and the final file for completed, none otherwise.
C29_RowDownloadsAsInPanel ==
    RowsShown =>
        \A i \in 1..Len(sessions) :
            /\ RowDownloads(sessions[i]) = PanelDownloads(sessions[i])
            /\ sessions[i].status = "template_generated"
                  => RowDownloads(sessions[i]) = {"template"}
            /\ sessions[i].status = "completed"
                  => RowDownloads(sessions[i]) = {"template", "final"}
            /\ sessions[i].status \notin {"template_generated", "completed"}
                  => RowDownloads(sessions[i]) = {}

---------------------------------------------------------------------------
(* C30 *)

\* C30: a file selected while Phase 1 is idle, through the file picker or
\* by drag-and-drop, becomes the original file, and the error text is
\* empty afterwards.
C30_SelectingSetsFileAndClearsError ==
    [][(/\ steps' = steps + 1
        /\ uploadStatus = "idle"
        /\ lastEvent'.handler \in {"onDropOriginal", "onChangeOriginal"}
        /\ lastEvent'.input # Null)
          => /\ originalFile' = lastEvent'.input
             /\ error' = ""]_vars

---------------------------------------------------------------------------
(* C31 *)

\* a placeholder flagged as such
FlaggedMock(file) == Has(file, "isMock") /\ file.isMock = TRUE

\* C31: the original-file slot is empty, or a file the operator selected,
\* or a placeholder flagged as mock; and no request to /upload carries
\* anything but a file the operator selected.
C31_OriginalFileGenuineOrFlagged ==
    /\ \/ originalFile = Null
       \/ originalFile \in OriginalFiles
       \/ FlaggedMock(originalFile)
    /\ \A req \in pending :
          req.endpoint = "/upload" => req.form.file \in OriginalFiles

---------------------------------------------------------------------------
(* C32 *)

\* the forms of the POST /process requests awaiting their response
ProcessForms ==
    {req.form : req \in {r \in pending \cup apiPending :
                            r.method = "POST" /\ r.endpoint = "/process"}}

\* C32: a POST /process request, sent by processFile of the hook or by the
\* Phase-2 trigger of the orchestrator, carries the fields file, session_id
\* and strategy, and the strategy is FIFO when none was chosen.
C32_ProcessFormHasStrategy ==
    \A form \in ProcessForms :
        /\ DOMAIN form = {"file", "session_id", "strategy"}
        /\ form.strategy = "FIFO"

---------------------------------------------------------------------------
(* C33 *)

\* C33: whenever Phase 2 is `success` with a stored result, that result is
\* the one of the session the stored upload result names, so that the final
\* download asks for the file of the session whose result is shown.
C33_ResultsOfOneSession ==
    (/\ processStatus = "success"
     /\ processResult # Null
     /\ ~Missing(uploadResult, "session_id"))
        => processResult.final_url
              = "/api/download/final/" \o uploadResult.session_id

---------------------------------------------------------------------------
(* C34 *)

\* C34: the response to a request issued before a reset, arriving right
\* after the reset, changes neither of the phase statuses nor of the
\* results: they stay `idle` and empty.
C34_LateResponseAfterReset ==
    [][(lastEvent.handler = "resetAll" /\ lastEvent'.phase = "settle")
          => /\ uploadStatus' = "idle" /\ processStatus' = "idle"
             /\ uploadResult' = Null /\ processResult' = Null]_vars

---------------------------------------------------------------------------
(* C35 *)

Outstanding(endpoint) == {req \in pending : req.endpoint = endpoint}

\* C35: at most one request to /upload and at most one request to /process
\* await their response at any time.
C35_OneRequestPerPhase ==
    /\ Cardinality(Outstanding("/upload")) <= 1
    /\ Cardinality(Outstanding("/process")) <= 1

---------------------------------------------------------------------------
(* C36 *)

\* C36: the step index is 4 when Phase 2 is `success`, 3 when it is
\* `processing` or `error`, 1 when Phase 1 is `success` and Phase 2 `idle`,
\* and 0 when Phase 1 is not `success`.
C36_StepIndexFollowsStatuses ==
    /\ processStatus = "success" => currentStep = 4
    /\ processStatus \in {"processing", "error"} => currentStep = 3
    /\ (uploadStatus = "success" /\ processStatus = "idle")
          => currentStep = 1
    /\ uploadStatus # "success" => currentStep = 0

---------------------------------------------------------------------------
(* C37 *)

\* C37: `loading` is true as long as a request issued through makeRequest
\* awaits its response.
C37_LoadingWhileOutstanding ==
    (\E req \in apiPending : req.op \in ThroughMakeRequest) => loading

---------------------------------------------------------------------------
(* C38 *)

\* C38: every selected id is the id of a session of the list in memory.
C38_SelectionWithinList ==
    \A k \in 1..Len(selectedSessions) : selectedSessions[k] \in Ids(sessions)

---------------------------------------------------------------------------
(* C39 *)

\* C39: the quick panel and the dashboard are never open together, and
\* right after a session was selected in one of them both are closed.
C39_OneOverlayAtATime ==
    /\ ~(isOpen /\ showDashboard)
    /\ lastEvent.handler = "handleSessionSelect"
          => (~isOpen /\ ~showDashboard)

\* a session selected in the dashboard, which was open
C39_Witness ==
    /\ lastEvent.handler = "handleSessionSelect"
    /\ lastEvent.input.status = "error"
    /\ ~isOpen
    /\ ~showDashboard

---------------------------------------------------------------------------
(* C40 *)

\* C40: a step of handleDownloadTemplate or of handleDownloadFinalFile, the
\* early returns and the handling of the response included, leaves the two
\* statuses, the two results, the two file slots, the step index and the
\* progress text as they are.
C40_DownloadsKeepTheWorkflow ==
    [][(/\ steps' = steps + 1
        /\ lastEvent'.handler \in {"handleDownloadTemplate",
                                   "handleDownloadFinalFile"})
          => UNCHANGED <<uploadStatus, processStatus, uploadResult,
                         processResult, originalFile, completedFile,
                         currentStep, progressDetails>>]_vars

\* the final download of a finished session has failed
C40_Witness ==
    /\ lastEvent.handler = "handleDownloadFinalFile"
    /\ lastEvent.phase = "settle"
    /\ lastEvent.input.response = Refused("Session introuvable")
    /\ error = "Session introuvable"
    /\ processStatus = "success"
    /\ currentStep = 4

=============================================================================
